---- MODULE Spec2Model ----
(***************************************************************************)
(* Session registry, session lifecycle and BiDi diagnostics buffers of the *)
(* MCP Selenium server (src/unnamed/part_010, the BiDi-enabled server.js). *)
(*                                                                         *)
(* Each tool handler is one action: the handler runs from its first line   *)
(* to its return, and every driver call it awaits resolves or rejects      *)
(* according to an outcome drawn from a small set.  Capture callbacks are  *)
(* actions of their own: they fire between tool calls.                     *)
(***************************************************************************)
EXTENDS Integers, Sequences, FiniteSets, TLC

(* ------------------------------- bounds -------------------------------- *)
MaxDrivers == 2      \* driver instances launched in one run
MaxClock   == 1      \* readings of Date.now() range over 0..MaxClock
MaxEvents  == 1      \* capture events fired in one run
MaxQuits   == 2      \* quit() invocations on one driver
MaxWindows == 2      \* windows open in one browser
MaxCaptured == 3     \* capture events fired in one run of SpecDiag
MaxDelivered == 2    \* capture events fired in one run of SpecCapture

(* ------------------------------ value sets ----------------------------- *)
Browsers   == {"chrome"}
DriverIds  == 1..MaxDrivers
NoDriver   == 0
SessionIds == Browsers \X (0..MaxClock)
Null       == <<>>
LogKeys    == {"consoleLogs", "pageErrors", "networkLogs"}

\* the text of the error thrown by getDriver
NoActiveMsg == "No active browser session"

VARIABLES
    drivers,         \* state.drivers: sessionId -> driver
    currentSession,  \* state.currentSession: sessionId or Null
    bidi,            \* state.bidi: sessionId -> the bidi object (named by its driver)
    bidiObj,         \* the bidi objects created by setupBidi, one per driver
    quits,           \* driver -> number of quit() invocations
    windows,         \* driver -> number of open windows
    nextDriver,      \* the next driver instance Builder.build() returns
    clock,           \* the last reading of Date.now()
    fired,           \* capture events fired so far
    running,         \* the process has not exited
    last,            \* the last tool call with its response
    calls,           \* the parity of the number of tool calls answered
    pending,         \* the handlers suspended at an await, with their locals
    raised,          \* a capture callback threw to the driver's event dispatcher
    logCache,        \* state.logCache: sessionId -> logs (log-cache server)
    trackedErrorsCache   \* state.trackedErrorsCache: sessionId -> tracked errors

vars == <<drivers, currentSession, bidi, bidiObj, quits,
          windows, nextDriver, clock, fired, running, last, calls, pending, raised,
          logCache, trackedErrorsCache>>

(* ------------------------------ Map helpers ---------------------------- *)
MapSet(m, k, v) == [x \in (DOMAIN m) \cup {k} |-> IF x = k THEN v ELSE m[x]]
MapDelete(m, k) == [x \in (DOMAIN m) \ {k} |-> m[x]]
MapHas(m, k)    == k \in DOMAIN m
EmptyMap        == [x \in {} |-> NoDriver]
Range(m)        == {m[x] : x \in DOMAIN m}

(* ------------------------------ getDriver ------------------------------ *)
\* getDriver falling back on a registered driver when none is current
getDriver_Fallback ==
    IF MapHas(drivers, currentSession) THEN drivers[currentSession]
    ELSE IF DOMAIN drivers # {} THEN drivers[CHOOSE x \in DOMAIN drivers : TRUE]
    ELSE NoDriver

\* state.drivers.get(state.currentSession); NoDriver stands for the throw
getDriver ==
    IF MapHas(drivers, currentSession) THEN drivers[currentSession] ELSE NoDriver

(* ----------------------------- newBidiState ---------------------------- *)
\* a bidi object created with an entry already in its console sequence
newBidiState_Stale ==
    [available |-> FALSE,
     consoleLogs |-> <<[n |-> 0, type |-> "console", level |-> "warn", text |-> "msg"]>>,
     pageErrors |-> <<>>, networkLogs |-> <<>>]

newBidiState ==
    [available |-> FALSE, consoleLogs |-> <<>>, pageErrors |-> <<>>, networkLogs |-> <<>>]

\* the bidi objects that the map b still refers to; an object no entry refers
\* to can be read by no handler and is kept as a fresh one
Reachable(b, objs) ==
    [d \in DriverIds |-> IF d \in Range(b) THEN objs[d] ELSE newBidiState]


(* -------------------------       responses       ----------------------- *)
\* the two messages each registerBidiTool call is given
emptyMessage(logKey) ==
    CASE logKey = "consoleLogs" -> "No console logs captured"
      [] logKey = "pageErrors"  -> "No page errors captured"
      [] logKey = "networkLogs" -> "No network activity captured"

unavailableMessage(logKey) ==
    CASE logKey = "consoleLogs" -> "Console log capture is not available"
      [] logKey = "pageErrors"  -> "Page error capture is not available"
      [] logKey = "networkLogs" -> "Network log capture is not available"

toolName(logKey) ==
    CASE logKey = "consoleLogs" -> "get_console_logs"
      [] logKey = "pageErrors"  -> "get_page_errors"
      [] logKey = "networkLogs" -> "get_network_logs"

\* One tool call as the caller and the driver saw it: the response
\* (isError, text, the session id the text names, the entries it lists) and
\* the driver methods the handler invoked.
\* The record also holds the number of capture events fired before the call
\* and, for a diagnostics query (QueryCall), its clear argument.
Call(tool, isError, text, sid, ops, logs) ==
    [tool |-> tool, isError |-> isError, text |-> text, sid |-> sid,
     ops |-> ops, logs |-> logs, clear |-> FALSE, fired |-> fired]

\* the catch block of every handler: the error text, isError: true
ErrorResponse(tool, message, ops) ==
    Call(tool, TRUE, message, Null, ops, <<>>)

\* the handler returns response c to the transport
Respond(c) ==
    /\ last' = c
    /\ calls' = 1 - calls

NoCall ==
    [tool |-> "none", isError |-> FALSE, text |-> "", sid |-> Null,
     ops |-> <<>>, logs |-> <<>>, clear |-> FALSE, fired |-> 0]

\* the message of an error a driver method rejects with
DriverErrorMsg == "driver error"

(* -------------------------------- Init --------------------------------- *)
Init ==
    /\ drivers = EmptyMap
    /\ currentSession = Null
    /\ bidi = EmptyMap
    /\ bidiObj = [d \in DriverIds |-> newBidiState]
    /\ quits = [d \in DriverIds |-> 0]
    /\ windows = [d \in DriverIds |-> 0]
    /\ nextDriver = 1
    /\ clock = 0
    /\ fired = 0
    /\ running = TRUE
    /\ last = NoCall
    /\ calls = 0
    /\ pending = {}
    /\ raised = FALSE
    /\ logCache = EmptyMap
    /\ trackedErrorsCache = EmptyMap

(* ------------------------------ setupBidi ------------------------------ *)
\* setupBidi awaits six calls in turn; failAt names the one that rejects
\* (0: none).  1 LogInspector(driver), 2 onConsoleEntry, 3 onJavascriptLog,
\* 4 Network(driver), 5 responseCompleted, 6 fetchError.
SetupSteps == 0..6

\* state.bidi after setupBidi(driver, sessionId): set only when no call rejected
setupBidi(d, sessionId, failAt) ==
    IF failAt = 0 THEN MapSet(bidi, sessionId, d) ELSE bidi

(* ----------------------------- start_browser --------------------------- *)
LaunchErrorMsg == "launch error"
StartedMsg(enabled) ==
    IF enabled THEN "Browser started (BiDi enabled)" ELSE "Browser started"

\* `${browser}_${Date.now()}`
SessionId(browser, now) == <<browser, now>>

\* the catch block of start_browser resetting the current session
StartBrowserFails_Resets(browser) ==
    /\ running
    /\ currentSession' = Null
    /\ Respond(ErrorResponse("start_browser", LaunchErrorMsg, <<"build">>))
    /\ UNCHANGED <<logCache, trackedErrorsCache, pending, raised, drivers, bidi, bidiObj, quits,
                   windows, nextDriver, clock, fired, running>>

\* builder.build() rejects: the catch block answers, nothing was registered
StartBrowserFails(browser) ==
    /\ running
    /\ Respond(ErrorResponse("start_browser", LaunchErrorMsg, <<"build">>))
    /\ UNCHANGED <<logCache, trackedErrorsCache, pending, raised, drivers, currentSession, bidi, bidiObj, quits,
                   windows, nextDriver, clock, fired, running>>

\* start_browser announcing BiDi by the outcome of its own setupBidi call
\* instead of by state.bidi.get(sessionId)?.available
StartBrowser_AnnouncesAttach(browser, now, failAt) ==
    /\ running
    /\ nextDriver <= MaxDrivers
    /\ LET d == nextDriver
           sessionId == SessionId(browser, now)
           newBidi == setupBidi(d, sessionId, failAt)
           attached == failAt = 0
       IN  /\ drivers' = MapSet(drivers, sessionId, d)
           /\ currentSession' = sessionId
           /\ bidi' = newBidi
           /\ bidiObj' = Reachable(newBidi, [bidiObj EXCEPT ![d].available = attached])
           /\ windows' = [windows EXCEPT ![d] = 1]
           /\ nextDriver' = nextDriver + 1
           /\ clock' = now
           /\ Respond(Call("start_browser", FALSE, StartedMsg(attached),
                                        sessionId, <<"build">>, <<>>))
    /\ UNCHANGED <<logCache, trackedErrorsCache, pending, raised, quits, fired, running>>

\* builder.build() resolves with a new driver at time now; the failure of
\* setupBidi is swallowed.  When the BiDi modules could not be imported
\* setupBidi is not called at all, which leaves the same state as its first
\* call rejecting (failAt = 1): no callback registered, state.bidi unchanged.
StartBrowser(browser, now, failAt) ==
    /\ running
    /\ nextDriver <= MaxDrivers
    /\ LET d == nextDriver
           sessionId == SessionId(browser, now)
           newBidi == setupBidi(d, sessionId, failAt)
           attached == failAt = 0
           enabled == MapHas(newBidi, sessionId)
                        /\ (IF newBidi[sessionId] = d THEN attached
                            ELSE bidiObj[newBidi[sessionId]].available)
       IN  /\ drivers' = MapSet(drivers, sessionId, d)
           /\ currentSession' = sessionId
           /\ bidi' = newBidi
           /\ bidiObj' = Reachable(newBidi, [bidiObj EXCEPT ![d].available = attached])
           /\ windows' = [windows EXCEPT ![d] = 1]
           /\ nextDriver' = nextDriver + 1
           /\ clock' = now
           /\ Respond(Call("start_browser", FALSE, StartedMsg(enabled),
                                        sessionId, <<"build">>, <<>>))
    /\ UNCHANGED <<logCache, trackedErrorsCache, pending, raised, quits, fired, running>>

(* ----------------------------- close_session --------------------------- *)
ClosedMsg == "Browser session closed"

\* getDriver throws: the catch block answers
CloseSessionNoSession ==
    /\ running
    /\ getDriver = NoDriver
    /\ Respond(ErrorResponse("close_session", NoActiveMsg, <<>>))
    /\ UNCHANGED <<logCache, trackedErrorsCache, pending, raised, drivers, currentSession, bidi, bidiObj, quits,
                   windows, nextDriver, clock, fired, running>>

\* driver.quit() rejects: the three state updates after it are skipped
CloseSessionQuitFails ==
    /\ running
    /\ getDriver # NoDriver
    /\ quits[getDriver] < MaxQuits
    /\ quits' = [quits EXCEPT ![getDriver] = @ + 1]
    /\ Respond(ErrorResponse("close_session", DriverErrorMsg, <<"quit">>))
    /\ UNCHANGED <<logCache, trackedErrorsCache, pending, raised, drivers, currentSession, bidi, bidiObj,
                   windows, nextDriver, clock, fired, running>>

\* close_session without its last assignment, state.currentSession = null
CloseSession_KeepsPointer ==
    /\ running
    /\ getDriver # NoDriver
    /\ quits[getDriver] < MaxQuits
    /\ LET driver == getDriver
           sessionId == currentSession
       IN  /\ quits' = [quits EXCEPT ![driver] = @ + 1]
           /\ windows' = [windows EXCEPT ![driver] = 0]
           /\ drivers' = MapDelete(drivers, sessionId)
           /\ bidi' = MapDelete(bidi, sessionId)
           /\ bidiObj' = Reachable(bidi', bidiObj)
           /\ Respond(Call("close_session", FALSE, ClosedMsg, sessionId,
                          <<"quit">>, <<>>))
    /\ UNCHANGED <<logCache, trackedErrorsCache, pending, raised, currentSession, nextDriver, clock, fired, running>>

\* driver.quit() resolves
CloseSession ==
    /\ running
    /\ getDriver # NoDriver
    /\ quits[getDriver] < MaxQuits
    /\ LET driver == getDriver
           sessionId == currentSession
       IN  /\ quits' = [quits EXCEPT ![driver] = @ + 1]
           /\ windows' = [windows EXCEPT ![driver] = 0]
           /\ drivers' = MapDelete(drivers, sessionId)
           /\ bidi' = MapDelete(bidi, sessionId)
           /\ bidiObj' = Reachable(bidi', bidiObj)
           /\ currentSession' = Null
           /\ Respond(Call("close_session", FALSE, ClosedMsg, sessionId,
                          <<"quit">>, <<>>))
    /\ UNCHANGED <<logCache, trackedErrorsCache, pending, raised, nextDriver, clock, fired, running>>

(* ------------------------ pass-through tools --------------------------- *)
\* navigate and find_element stand for the handlers of the
\* shape  try { getDriver(); await driver.<call>; return ok } catch { error }
PassTools == {"navigate", "find_element"}
OkMsg == "ok"

PassThroughNoSession(tool) ==
    /\ running
    /\ getDriver = NoDriver
    /\ Respond(ErrorResponse(tool, NoActiveMsg, <<>>))
    /\ UNCHANGED <<logCache, trackedErrorsCache, pending, raised, drivers, currentSession, bidi, bidiObj, quits,
                   windows, nextDriver, clock, fired, running>>

\* the catch block giving up the session the call failed on
PassThroughFails_DropsSession(tool) ==
    /\ running
    /\ getDriver # NoDriver
    /\ currentSession' = Null
    /\ Respond(ErrorResponse(tool, DriverErrorMsg, <<"call">>))
    /\ UNCHANGED <<logCache, trackedErrorsCache, pending, raised, drivers, bidi, bidiObj, quits,
                   windows, nextDriver, clock, fired, running>>

\* the driver call rejects, or the wait expires
PassThroughFails(tool) ==
    /\ running
    /\ getDriver # NoDriver
    /\ Respond(ErrorResponse(tool, DriverErrorMsg, <<"call">>))
    /\ UNCHANGED <<logCache, trackedErrorsCache, pending, raised, drivers, currentSession, bidi, bidiObj, quits,
                   windows, nextDriver, clock, fired, running>>

\* the driver call resolves
PassThrough(tool) ==
    /\ running
    /\ getDriver # NoDriver
    /\ windows[getDriver] > 0
    /\ Respond(Call(tool, FALSE, OkMsg, Null, <<"call">>, <<>>))
    /\ UNCHANGED <<logCache, trackedErrorsCache, pending, raised, drivers, currentSession, bidi, bidiObj, quits,
                   windows, nextDriver, clock, fired, running>>

\* the page opens another window or tab (window.open, a target=_blank link)
windowOpened(d) ==
    /\ running
    /\ d \in Range(drivers)
    /\ windows[d] \in 1..(MaxWindows - 1)
    /\ windows' = [windows EXCEPT ![d] = @ + 1]
    /\ UNCHANGED <<logCache, trackedErrorsCache, pending, raised, drivers, currentSession, bidi, bidiObj, quits,
                   nextDriver, clock, fired, running, last, calls>>

(* ------------------------- capture callbacks --------------------------- *)
Undefined == "undefined"

\* what the log inspector hands a callback: a full entry
LogPayloads ==
    { [isNull |-> FALSE, level |-> "warn", text |-> "msg"] }

\* what the network module hands a callback: an event with its request
NetPayloads ==
    { [isNull |-> FALSE, hasRequest |-> TRUE] }

\* the object literal a log callback pushes; n numbers the events in firing order
LogEntry(n, type, entry) ==
    [n |-> n, type |-> type, level |-> entry.level, text |-> entry.text]

\* the object literal a network callback pushes: event.request?.url
NetEntry(n, type, event) ==
    [n |-> n, type |-> type, url |-> IF event.hasRequest THEN "url" ELSE Undefined]

\* the callback putting the item in front (unshift instead of push)
Push_Prepend(d, logKey, isNull, item) ==
    IF isNull THEN bidiObj
    ELSE [bidiObj EXCEPT ![d][logKey] = <<item>> \o @]

\* try { bidi[logKey].push(item) } catch (_) {}: reading a property of null
\* throws before push is reached
Push(d, logKey, isNull, item) ==
    IF isNull THEN bidiObj
    ELSE [bidiObj EXCEPT ![d][logKey] = Append(@, item)]

\* the try block of a callback: whether it threw, and the bidi objects after it
TryPush(d, logKey, isNull, item) ==
    [thrown |-> isNull, objs |-> Push(d, logKey, isNull, item)]

\* a callback without a catch block: what the try block threw leaves it
Catch_Rethrows(r) == r

\* catch (_) { /* ignore malformed entry */ }
Catch(r) == [r EXCEPT !.thrown = FALSE]

\* A callback of driver d can fire once setupBidi registered it.  Only the
\* firings that reach a bidi object state.bidi still refers to are steps: an
\* object of a failed setupBidi, or one whose entry was deleted, is read by
\* nothing.
CanFire(d) ==
    /\ running
    /\ d \in Range(bidi)

onConsoleEntry(d, entry) ==
    /\ CanFire(d)
    /\ fired' = fired + 1
    /\ LET r == Catch(TryPush(d, "consoleLogs", entry.isNull, LogEntry(fired + 1, "console", entry)))
       IN  bidiObj' = r.objs /\ raised' = (raised \/ r.thrown)
    /\ UNCHANGED <<logCache, trackedErrorsCache, pending, drivers, currentSession, bidi, quits,
                   windows, nextDriver, clock, running, last, calls>>

onJavascriptLog(d, entry) ==
    /\ CanFire(d)
    /\ fired' = fired + 1
    /\ LET r == Catch(TryPush(d, "pageErrors", entry.isNull, LogEntry(fired + 1, "javascript", entry)))
       IN  bidiObj' = r.objs /\ raised' = (raised \/ r.thrown)
    /\ UNCHANGED <<logCache, trackedErrorsCache, pending, drivers, currentSession, bidi, quits,
                   windows, nextDriver, clock, running, last, calls>>

responseCompleted(d, event) ==
    /\ CanFire(d)
    /\ fired' = fired + 1
    /\ LET r == Catch(TryPush(d, "networkLogs", event.isNull, NetEntry(fired + 1, "response", event)))
       IN  bidiObj' = r.objs /\ raised' = (raised \/ r.thrown)
    /\ UNCHANGED <<logCache, trackedErrorsCache, pending, drivers, currentSession, bidi, quits,
                   windows, nextDriver, clock, running, last, calls>>

fetchError(d, event) ==
    /\ CanFire(d)
    /\ fired' = fired + 1
    /\ LET r == Catch(TryPush(d, "networkLogs", event.isNull, NetEntry(fired + 1, "error", event)))
       IN  bidiObj' = r.objs /\ raised' = (raised \/ r.thrown)
    /\ UNCHANGED <<logCache, trackedErrorsCache, pending, drivers, currentSession, bidi, quits,
                   windows, nextDriver, clock, running, last, calls>>

(* ---------------------------- registerBidiTool ------------------------- *)
\* JSON.stringify(logs, null, 2) of a non-empty array; the entries themselves
\* are the logs field of the call
EntriesMsg == "entries"

\* the record of a diagnostics query that got past getDriver()
QueryCall(logKey, clear, text, logs) ==
    [Call(toolName(logKey), FALSE, text, Null, <<>>, logs) EXCEPT !.clear = clear]

\* state.bidi.get(state.currentSession)?.available
BidiAvailable ==
    MapHas(bidi, currentSession) /\ bidiObj[bidi[currentSession]].available

QueryNoSession(logKey, clear) ==
    /\ running
    /\ getDriver = NoDriver
    /\ Respond(ErrorResponse(toolName(logKey), NoActiveMsg, <<>>))
    /\ UNCHANGED <<logCache, trackedErrorsCache, pending, raised, drivers, currentSession, bidi, bidiObj, quits,
                   windows, nextDriver, clock, fired, running>>

\* the handler testing  !bidi?.available || logs.length === 0
Query_EmptyIsUnavailable(logKey, clear) ==
    /\ running
    /\ getDriver # NoDriver
    /\ IF ~BidiAvailable \/ Len(bidiObj[bidi[currentSession]][logKey]) = 0
       THEN /\ Respond(QueryCall(logKey, clear, unavailableMessage(logKey), <<>>))
            /\ UNCHANGED bidiObj
       ELSE LET b == bidi[currentSession]
                logs == bidiObj[b][logKey]
            IN  /\ bidiObj' = IF clear THEN [bidiObj EXCEPT ![b][logKey] = <<>>] ELSE bidiObj
                /\ Respond(QueryCall(logKey, clear, EntriesMsg, logs))
    /\ UNCHANGED <<logCache, trackedErrorsCache, pending, raised, drivers, currentSession, bidi, quits,
                   windows, nextDriver, clock, fired, running>>

\* the handler without  if (clear) bidi[logKey] = []
Query_NeverClears(logKey, clear) ==
    /\ running
    /\ getDriver # NoDriver
    /\ IF ~BidiAvailable
       THEN /\ Respond(QueryCall(logKey, clear, unavailableMessage(logKey), <<>>))
            /\ UNCHANGED bidiObj
       ELSE LET b == bidi[currentSession]
                logs == bidiObj[b][logKey]
                result == IF Len(logs) = 0 THEN emptyMessage(logKey) ELSE EntriesMsg
            IN  /\ bidiObj' = bidiObj
                /\ Respond(QueryCall(logKey, clear, result, logs))
    /\ UNCHANGED <<logCache, trackedErrorsCache, pending, raised, drivers, currentSession, bidi, quits,
                   windows, nextDriver, clock, fired, running>>

\* the handler replacing the whole bidi object when clear is set
Query_ClearsAll(logKey, clear) ==
    /\ running
    /\ getDriver # NoDriver
    /\ IF ~BidiAvailable
       THEN /\ Respond(QueryCall(logKey, clear, unavailableMessage(logKey), <<>>))
            /\ UNCHANGED bidiObj
       ELSE LET b == bidi[currentSession]
                logs == bidiObj[b][logKey]
                result == IF Len(logs) = 0 THEN emptyMessage(logKey) ELSE EntriesMsg
            IN  /\ bidiObj' = IF clear THEN [bidiObj EXCEPT ![b] = [newBidiState EXCEPT !.available = TRUE]] ELSE bidiObj
                /\ Respond(QueryCall(logKey, clear, result, logs))
    /\ UNCHANGED <<logCache, trackedErrorsCache, pending, raised, drivers, currentSession, bidi, quits,
                   windows, nextDriver, clock, fired, running>>

\* the handler clearing whatever the clear argument
Query_AlwaysClears(logKey, clear) ==
    /\ running
    /\ getDriver # NoDriver
    /\ IF ~BidiAvailable
       THEN /\ Respond(QueryCall(logKey, clear, unavailableMessage(logKey), <<>>))
            /\ UNCHANGED bidiObj
       ELSE LET b == bidi[currentSession]
                logs == bidiObj[b][logKey]
                result == IF Len(logs) = 0 THEN emptyMessage(logKey) ELSE EntriesMsg
            IN  /\ bidiObj' = [bidiObj EXCEPT ![b][logKey] = <<>>]
                /\ Respond(QueryCall(logKey, clear, result, logs))
    /\ UNCHANGED <<logCache, trackedErrorsCache, pending, raised, drivers, currentSession, bidi, quits,
                   windows, nextDriver, clock, fired, running>>

\* the handler emptying the class's array of every session
Query_ClearsEverySession(logKey, clear) ==
    /\ running
    /\ getDriver # NoDriver
    /\ IF ~BidiAvailable
       THEN /\ Respond(QueryCall(logKey, clear, unavailableMessage(logKey), <<>>))
            /\ UNCHANGED bidiObj
       ELSE LET b == bidi[currentSession]
                logs == bidiObj[b][logKey]
                result == IF Len(logs) = 0 THEN emptyMessage(logKey) ELSE EntriesMsg
            IN  /\ bidiObj' = IF clear
                              THEN [d \in DriverIds |-> [bidiObj[d] EXCEPT ![logKey] = <<>>]]
                              ELSE bidiObj
                /\ Respond(QueryCall(logKey, clear, result, logs))
    /\ UNCHANGED <<logCache, trackedErrorsCache, pending, raised, drivers, currentSession, bidi, quits,
                   windows, nextDriver, clock, fired, running>>

\* the handler of get_console_logs, get_page_errors and get_network_logs
Query(logKey, clear) ==
    /\ running
    /\ getDriver # NoDriver
    /\ IF ~BidiAvailable
       THEN /\ Respond(QueryCall(logKey, clear, unavailableMessage(logKey), <<>>))
            /\ UNCHANGED bidiObj
       ELSE LET b == bidi[currentSession]
                logs == bidiObj[b][logKey]
                result == IF Len(logs) = 0 THEN emptyMessage(logKey) ELSE EntriesMsg
            IN  /\ bidiObj' = IF clear THEN [bidiObj EXCEPT ![b][logKey] = <<>>] ELSE bidiObj
                /\ Respond(QueryCall(logKey, clear, result, logs))
    /\ UNCHANGED <<logCache, trackedErrorsCache, pending, raised, drivers, currentSession, bidi, quits,
                   windows, nextDriver, clock, fired, running>>

(* -------------------------- close_current_window ----------------------- *)
WindowClosedMsg == "Window closed. Switched to first handle"
SessionEndedMsg == "Last window closed. Session ended."

CloseCurrentWindowNoSession ==
    /\ running
    /\ getDriver = NoDriver
    /\ Respond(ErrorResponse("close_current_window", NoActiveMsg, <<>>))
    /\ UNCHANGED <<logCache, trackedErrorsCache, pending, raised, drivers, currentSession, bidi, bidiObj, quits,
                   windows, nextDriver, clock, fired, running>>

\* driver.close() rejects (always when no window is open)
CloseCurrentWindowCloseFails ==
    /\ running
    /\ getDriver # NoDriver
    /\ Respond(ErrorResponse("close_current_window", DriverErrorMsg, <<"close">>))
    /\ UNCHANGED <<logCache, trackedErrorsCache, pending, raised, drivers, currentSession, bidi, bidiObj, quits,
                   windows, nextDriver, clock, fired, running>>

\* driver.close() resolves, then getAllWindowHandles() (failAt = 1) or
\* switchTo().window() (failAt = 2) rejects: the window is gone, the catch
\* block answers
CloseCurrentWindowLaterFails(failAt) ==
    /\ running
    /\ getDriver # NoDriver
    /\ windows[getDriver] > 0
    /\ failAt = 2 => windows[getDriver] > 1
    /\ windows' = [windows EXCEPT ![getDriver] = @ - 1]
    /\ Respond(ErrorResponse("close_current_window", DriverErrorMsg,
                        IF failAt = 1 THEN <<"close", "getAllWindowHandles">>
                        ELSE <<"close", "getAllWindowHandles", "switchTo">>))
    /\ UNCHANGED <<logCache, trackedErrorsCache, pending, raised, drivers, currentSession, bidi, bidiObj, quits,
                   nextDriver, clock, fired, running>>

\* other windows remain: switch to the first of them
CloseCurrentWindowSwitches ==
    /\ running
    /\ getDriver # NoDriver
    /\ windows[getDriver] > 1
    /\ windows' = [windows EXCEPT ![getDriver] = @ - 1]
    /\ Respond(Call("close_current_window", FALSE, WindowClosedMsg, Null,
                                 <<"close", "getAllWindowHandles", "switchTo">>, <<>>))
    /\ UNCHANGED <<logCache, trackedErrorsCache, pending, raised, drivers, currentSession, bidi, bidiObj, quits,
                   nextDriver, clock, fired, running>>

\* the last window was closed and a rejection of quit is not swallowed: the
\* outer catch block answers and the session stays
CloseCurrentWindowLast_QuitFailureKeeps(quitOk) ==
    /\ running
    /\ getDriver # NoDriver
    /\ windows[getDriver] = 1
    /\ quits[getDriver] < MaxQuits
    /\ LET driver == getDriver
           sessionId == currentSession
       IN  /\ windows' = [windows EXCEPT ![driver] = 0]
           /\ quits' = [quits EXCEPT ![driver] = @ + 1]
           /\ IF quitOk
              THEN /\ drivers' = MapDelete(drivers, sessionId)
                   /\ bidi' = MapDelete(bidi, sessionId)
                   /\ bidiObj' = Reachable(bidi', bidiObj)
                   /\ currentSession' = Null
                   /\ Respond(Call("close_current_window", FALSE, SessionEndedMsg, Null,
                                  <<"close", "getAllWindowHandles", "quit">>, <<>>))
              ELSE /\ UNCHANGED <<drivers, bidi, bidiObj, currentSession>>
                   /\ Respond(ErrorResponse("close_current_window", DriverErrorMsg,
                                  <<"close", "getAllWindowHandles", "quit">>))
    /\ UNCHANGED <<logCache, trackedErrorsCache, pending, raised, nextDriver, clock, fired>>
    /\ UNCHANGED running

\* the last window was closed: quit (a rejection is logged and swallowed),
\* then remove the session
CloseCurrentWindowLast(quitOk) ==
    /\ running
    /\ getDriver # NoDriver
    /\ windows[getDriver] = 1
    /\ quits[getDriver] < MaxQuits
    /\ LET driver == getDriver
           sessionId == currentSession
       IN  /\ windows' = [windows EXCEPT ![driver] = 0]
           /\ quits' = [quits EXCEPT ![driver] = @ + 1]
           /\ drivers' = MapDelete(drivers, sessionId)
           /\ bidi' = MapDelete(bidi, sessionId)
           /\ bidiObj' = Reachable(bidi', bidiObj)
           /\ currentSession' = Null
           /\ Respond(Call("close_current_window", FALSE, SessionEndedMsg, Null,
                          <<"close", "getAllWindowHandles", "quit">>, <<>>))
    /\ UNCHANGED <<logCache, trackedErrorsCache, pending, raised, nextDriver, clock, fired>>
    /\ UNCHANGED running

(* -------------------------------- cleanup ------------------------------ *)
\* cleanup without the try/catch around quit: the first rejection ends the loop
cleanup_StopsAtFailure(failing) ==
    /\ running
    /\ failing \subseteq Range(drivers)
    /\ \A d \in Range(drivers) : quits[d] < MaxQuits
    /\ quits' = [d \in DriverIds |->
                    IF d \in Range(drivers) /\ \A e \in failing : e >= d
                    THEN quits[d] + 1 ELSE quits[d]]
    /\ drivers' = EmptyMap
    /\ bidi' = EmptyMap
    /\ bidiObj' = Reachable(bidi', bidiObj)
    /\ currentSession' = Null
    /\ running' = FALSE
    /\ UNCHANGED <<logCache, trackedErrorsCache, pending, raised, windows, nextDriver, clock, fired, last, calls>>

\* SIGTERM or SIGINT: quit every driver of state.drivers (failing holds the
\* drivers whose quit rejects), clear the three fields, exit
cleanup(failing) ==
    /\ running
    /\ failing \subseteq Range(drivers)
    /\ \A d \in Range(drivers) : quits[d] < MaxQuits
    /\ quits' = [d \in DriverIds |-> IF d \in Range(drivers) THEN quits[d] + 1 ELSE quits[d]]
    /\ drivers' = EmptyMap
    /\ bidi' = EmptyMap
    /\ bidiObj' = Reachable(bidi', bidiObj)
    /\ currentSession' = Null
    /\ running' = FALSE
    /\ UNCHANGED <<logCache, trackedErrorsCache, pending, raised, windows, nextDriver, clock, fired, last, calls>>

(* --------------------------------- Next -------------------------------- *)
Next ==
    \/ \E browser \in Browsers : StartBrowserFails(browser)
    \/ \E browser \in Browsers, now \in clock..MaxClock, failAt \in SetupSteps :
          StartBrowser(browser, now, failAt)
    \/ CloseSessionNoSession
    \/ CloseSessionQuitFails
    \/ CloseSession
    \/ \E tool \in PassTools : PassThroughNoSession(tool)
    \/ \E tool \in PassTools : PassThroughFails(tool)
    \/ \E tool \in PassTools : PassThrough(tool)
    \/ \E d \in DriverIds : windowOpened(d)
    \/ \E logKey \in LogKeys, clear \in BOOLEAN : QueryNoSession(logKey, clear)
    \/ \E logKey \in LogKeys, clear \in BOOLEAN : Query(logKey, clear)
    \/ CloseCurrentWindowNoSession
    \/ CloseCurrentWindowCloseFails
    \/ \E failAt \in 1..2 : CloseCurrentWindowLaterFails(failAt)
    \/ CloseCurrentWindowSwitches
    \/ \E quitOk \in BOOLEAN : CloseCurrentWindowLast(quitOk)
    \/ \E failing \in SUBSET DriverIds : cleanup(failing)
    \/ \E d \in DriverIds, entry \in LogPayloads : fired < MaxEvents /\ onConsoleEntry(d, entry)
    \/ \E d \in DriverIds, entry \in LogPayloads : fired < MaxEvents /\ onJavascriptLog(d, entry)
    \/ \E d \in DriverIds, event \in NetPayloads : fired < MaxEvents /\ responseCompleted(d, event)
    \/ \E d \in DriverIds, event \in NetPayloads : fired < MaxEvents /\ fetchError(d, event)

Spec == Init /\ [][Next]_vars

(* ------------------------ the diagnostics tools ------------------------ *)
\* The session lifecycle, the capture callbacks and the three diagnostics
\* tools, with room for MaxCaptured events; the window and pass-through
\* tools, which touch neither state.bidi nor a bidi object, are left out, and
\* so is the close_session whose quit rejects, which changes nothing but the
\* driver's quit count.
DiagNext ==
    \/ \E browser \in Browsers : StartBrowserFails(browser)
    \/ \E browser \in Browsers, now \in clock..MaxClock, failAt \in SetupSteps :
          StartBrowser(browser, now, failAt)
    \/ CloseSessionNoSession
    \/ CloseSession
    \/ \E logKey \in LogKeys, clear \in BOOLEAN : QueryNoSession(logKey, clear)
    \/ \E logKey \in LogKeys, clear \in BOOLEAN : Query(logKey, clear)
    \/ \E failing \in SUBSET DriverIds : cleanup(failing)
    \/ \E d \in DriverIds, entry \in LogPayloads : fired < MaxCaptured /\ onConsoleEntry(d, entry)
    \/ \E d \in DriverIds, entry \in LogPayloads : fired < MaxCaptured /\ onJavascriptLog(d, entry)
    \/ \E d \in DriverIds, event \in NetPayloads : fired < MaxCaptured /\ responseCompleted(d, event)
    \/ \E d \in DriverIds, event \in NetPayloads : fired < MaxCaptured /\ fetchError(d, event)

SpecDiag == Init /\ [][DiagNext]_vars

(* ----------------------- what the backend delivers -------------------- *)
\* The payloads a callback can be handed: null or undefined (isNull; reading a
\* property of either throws), and entries with or without a level and a
\* text; the level is the name the backend uses.
BackendLevels == {"warn", "error"}

AllLogPayloads ==
    { [isNull |-> TRUE, level |-> Undefined, text |-> Undefined] }
    \cup { [isNull |-> FALSE, level |-> l, text |-> t] :
             l \in BackendLevels \cup {Undefined}, t \in {"msg", Undefined} }

\* null or undefined, and events with and without a request object
AllNetPayloads ==
    { [isNull |-> TRUE, hasRequest |-> FALSE],
      [isNull |-> FALSE, hasRequest |-> TRUE],
      [isNull |-> FALSE, hasRequest |-> FALSE] }

\* The session lifecycle, the callbacks under every payload, and the
\* diagnostics tools.
CaptureNext ==
    \/ \E browser \in Browsers, now \in clock..MaxClock, failAt \in SetupSteps :
          StartBrowser(browser, now, failAt)
    \/ CloseSession
    \/ \E logKey \in LogKeys, clear \in BOOLEAN : Query(logKey, clear)
    \/ \E failing \in SUBSET DriverIds : cleanup(failing)
    \/ \E d \in DriverIds, entry \in AllLogPayloads : fired < MaxDelivered /\ onConsoleEntry(d, entry)
    \/ \E d \in DriverIds, entry \in AllLogPayloads : fired < MaxDelivered /\ onJavascriptLog(d, entry)
    \/ \E d \in DriverIds, event \in AllNetPayloads : fired < MaxDelivered /\ responseCompleted(d, event)
    \/ \E d \in DriverIds, event \in AllNetPayloads : fired < MaxDelivered /\ fetchError(d, event)

SpecCapture == Init /\ [][CaptureNext]_vars

(* --------------------- handlers suspended at an await ------------------ *)
\* The handlers are async functions: while one awaits driver.quit() the event
\* loop runs the capture callbacks and the handlers of other requests.  Here
\* the two tearing-down handlers are split at await driver.quit(); the locals
\* they hold across it are kept in pending.
\* A cleanup suspended in its loop holds the keys its Map iterator has passed.
\* Map.delete removes the key from the list the iterator walks, so a key set
\* again afterwards is appended behind the iterator: deleting sessionId takes
\* it out of the keys passed.
Forget(handlers, sessionId) ==
    { IF h.tool = "cleanup" THEN [h EXCEPT !.visited = @ \ {sessionId}] ELSE h :
        h \in handlers }

Handler(tool, driver, sessionId) ==
    [tool |-> tool, driver |-> driver, sessionId |-> sessionId]

\* close_session up to  await driver.quit()
CloseSessionAwaitsQuit ==
    /\ running
    /\ getDriver # NoDriver
    /\ quits[getDriver] < MaxQuits
    /\ LET h == Handler("close_session", getDriver, currentSession)
       IN  /\ h \notin pending
           /\ pending' = pending \cup {h}
    /\ quits' = [quits EXCEPT ![getDriver] = @ + 1]
    /\ UNCHANGED <<logCache, trackedErrorsCache, raised, drivers, currentSession, bidi, bidiObj,
                   windows, nextDriver, clock, fired, running, last, calls>>

\* close_session from the settlement of driver.quit() to its return
CloseSessionResumes(h, quitOk) ==
    /\ running
    /\ h \in pending
    /\ h.tool = "close_session"
    /\ IF quitOk
       THEN /\ pending' = Forget(pending \ {h}, h.sessionId)
            /\ windows' = [windows EXCEPT ![h.driver] = 0]
            /\ drivers' = MapDelete(drivers, h.sessionId)
            /\ bidi' = MapDelete(bidi, h.sessionId)
            /\ bidiObj' = Reachable(bidi', bidiObj)
            /\ currentSession' = Null
            /\ Respond(Call("close_session", FALSE, ClosedMsg, h.sessionId,
                           <<"quit">>, <<>>))
       ELSE /\ pending' = pending \ {h}
            /\ Respond(ErrorResponse("close_session", DriverErrorMsg, <<"quit">>))
            /\ UNCHANGED <<drivers, currentSession, bidi, bidiObj, windows>>
    /\ UNCHANGED <<logCache, trackedErrorsCache, raised, quits, nextDriver, clock, fired, running>>

\* close_current_window closing the last window, up to  await driver.quit()
CloseCurrentWindowAwaitsQuit ==
    /\ running
    /\ getDriver # NoDriver
    /\ windows[getDriver] = 1
    /\ quits[getDriver] < MaxQuits
    /\ LET h == Handler("close_current_window", getDriver, currentSession)
       IN  /\ h \notin pending
           /\ pending' = pending \cup {h}
    /\ windows' = [windows EXCEPT ![getDriver] = 0]
    /\ quits' = [quits EXCEPT ![getDriver] = @ + 1]
    /\ UNCHANGED <<logCache, trackedErrorsCache, raised, drivers, currentSession, bidi, bidiObj,
                   nextDriver, clock, fired, running, last, calls>>

\* close_current_window from the settlement of driver.quit() (a rejection is
\* logged and swallowed) to its return
CloseCurrentWindowResumes(h, quitOk) ==
    /\ running
    /\ h \in pending
    /\ h.tool = "close_current_window"
    /\ pending' = Forget(pending \ {h}, h.sessionId)
    /\ drivers' = MapDelete(drivers, h.sessionId)
    /\ bidi' = MapDelete(bidi, h.sessionId)
    /\ bidiObj' = Reachable(bidi', bidiObj)
    /\ currentSession' = Null
    /\ Respond(Call("close_current_window", FALSE, SessionEndedMsg, Null,
                   <<"close", "getAllWindowHandles", "quit">>, <<>>))
    /\ UNCHANGED <<logCache, trackedErrorsCache, raised, quits, windows, nextDriver, clock, fired, running>>

Handlers ==
    { Handler(tool, d, sessionId) :
        tool \in {"close_session", "close_current_window"},
        d \in DriverIds, sessionId \in SessionIds }

\* The pass-through tools change no variable but the call record and are
\* left out.
AsyncNext ==
    \/ \E browser \in Browsers : StartBrowserFails(browser)
    \/ \E browser \in Browsers, now \in clock..MaxClock, failAt \in SetupSteps :
          StartBrowser(browser, now, failAt)
    \/ CloseSessionNoSession
    \/ CloseSessionAwaitsQuit
    \/ \E h \in Handlers, quitOk \in BOOLEAN : CloseSessionResumes(h, quitOk)
    \/ \E d \in DriverIds : windowOpened(d)
    \/ \E logKey \in LogKeys, clear \in BOOLEAN : QueryNoSession(logKey, clear)
    \/ \E logKey \in LogKeys, clear \in BOOLEAN : Query(logKey, clear)
    \/ CloseCurrentWindowNoSession
    \/ CloseCurrentWindowCloseFails
    \/ \E failAt \in 1..2 : CloseCurrentWindowLaterFails(failAt)
    \/ CloseCurrentWindowSwitches
    \/ CloseCurrentWindowAwaitsQuit
    \/ \E h \in Handlers, quitOk \in BOOLEAN : CloseCurrentWindowResumes(h, quitOk)
    \/ \E failing \in SUBSET DriverIds : cleanup(failing)
    \/ \E d \in DriverIds, entry \in LogPayloads : fired < MaxEvents /\ onConsoleEntry(d, entry)
    \/ \E d \in DriverIds, entry \in LogPayloads : fired < MaxEvents /\ onJavascriptLog(d, entry)
    \/ \E d \in DriverIds, event \in NetPayloads : fired < MaxEvents /\ responseCompleted(d, event)
    \/ \E d \in DriverIds, event \in NetPayloads : fired < MaxEvents /\ fetchError(d, event)

SpecAsync == Init /\ [][AsyncNext]_vars

(* ----------------------------------------------------------------------- *)
(*  close_current_window split at its first await: the handler holds the   *)
(*  driver getDriver() returned and reads state.currentSession only after  *)
(*  close() and getAllWindowHandles() have settled.                        *)
(* ----------------------------------------------------------------------- *)
\* close_current_window up to  await driver.close()
CloseCurrentWindowAwaitsClose ==
    /\ running
    /\ getDriver # NoDriver
    /\ LET h == Handler("close_current_window", getDriver, Null)
       IN  /\ h \notin pending
           /\ pending' = pending \cup {h}
    /\ UNCHANGED <<logCache, trackedErrorsCache, raised, drivers, currentSession, bidi, bidiObj, quits, windows,
                   nextDriver, clock, fired, running, last, calls>>

\* close_current_window from the settlement of driver.close() to its return
CloseCurrentWindowCloseSettles(h) ==
    /\ running
    /\ h \in pending
    /\ h.tool = "close_current_window"
    /\ h.sessionId = Null
    /\ pending' = pending \ {h}
    /\ LET driver == h.driver
           sessionId == currentSession
       IN  CASE windows[driver] = 0 ->
                  /\ Respond(ErrorResponse("close_current_window", DriverErrorMsg, <<"close">>))
                  /\ UNCHANGED <<drivers, currentSession, bidi, bidiObj, quits, windows>>
             [] windows[driver] > 1 ->
                  /\ windows' = [windows EXCEPT ![driver] = @ - 1]
                  /\ Respond(Call("close_current_window", FALSE, WindowClosedMsg, Null,
                                 <<"close", "getAllWindowHandles", "switchTo">>, <<>>))
                  /\ UNCHANGED <<drivers, currentSession, bidi, bidiObj, quits>>
             [] windows[driver] = 1 ->
                  /\ quits[driver] < MaxQuits
                  /\ windows' = [windows EXCEPT ![driver] = 0]
                  /\ quits' = [quits EXCEPT ![driver] = @ + 1]
                  /\ drivers' = MapDelete(drivers, sessionId)
                  /\ bidi' = MapDelete(bidi, sessionId)
                  /\ bidiObj' = Reachable(bidi', bidiObj)
                  /\ currentSession' = Null
                  /\ Respond(Call("close_current_window", FALSE, SessionEndedMsg, Null,
                                 <<"close", "getAllWindowHandles", "quit">>, <<>>))
    /\ UNCHANGED <<logCache, trackedErrorsCache, raised, nextDriver, clock, fired, running>>

Closers == { Handler("close_current_window", d, Null) : d \in DriverIds }

InterleaveNext ==
    \/ \E browser \in Browsers, now \in clock..MaxClock, failAt \in SetupSteps :
          StartBrowser(browser, now, failAt)
    \/ CloseSessionAwaitsQuit
    \/ \E h \in Handlers, quitOk \in BOOLEAN : CloseSessionResumes(h, quitOk)
    \/ CloseCurrentWindowAwaitsClose
    \/ \E h \in Closers : CloseCurrentWindowCloseSettles(h)
    \/ \E d \in DriverIds : windowOpened(d)
    \/ \E failing \in SUBSET DriverIds : cleanup(failing)

SpecInterleave == Init /\ [][InterleaveNext]_vars

(* ----------------------------------------------------------------------- *)
(*  start_browser split at  await setupBidi(driver, sessionId):  the        *)
(*  session is registered and current before the await, state.bidi is set  *)
(*  at the end of setupBidi.                                               *)
(* ----------------------------------------------------------------------- *)
\* start_browser up to  await setupBidi(driver, sessionId)
StartBrowserAwaitsBidi(browser, now) ==
    /\ running
    /\ nextDriver <= MaxDrivers
    /\ LET d == nextDriver
           sessionId == SessionId(browser, now)
       IN  /\ drivers' = MapSet(drivers, sessionId, d)
           /\ currentSession' = sessionId
           /\ windows' = [windows EXCEPT ![d] = 1]
           /\ pending' = pending \cup {Handler("start_browser", d, sessionId)}
    /\ nextDriver' = nextDriver + 1
    /\ clock' = now
    /\ UNCHANGED <<logCache, trackedErrorsCache, raised, bidi, bidiObj, quits, fired, running, last, calls>>

\* start_browser from the settlement of setupBidi to its return
StartBrowserResumes(h, failAt) ==
    /\ running
    /\ h \in pending
    /\ h.tool = "start_browser"
    /\ pending' = pending \ {h}
    /\ LET d == h.driver
           sessionId == h.sessionId
           newBidi == setupBidi(d, sessionId, failAt)
           attached == failAt = 0
           enabled == MapHas(newBidi, sessionId)
                        /\ (IF newBidi[sessionId] = d THEN attached
                            ELSE bidiObj[newBidi[sessionId]].available)
       IN  /\ bidi' = newBidi
           /\ bidiObj' = Reachable(newBidi, [bidiObj EXCEPT ![d].available = attached])
           /\ Respond(Call("start_browser", FALSE, StartedMsg(enabled),
                                        sessionId, <<"build">>, <<>>))
    /\ UNCHANGED <<logCache, trackedErrorsCache, raised, drivers, currentSession, quits, windows, nextDriver,
                   clock, fired, running>>

Starters ==
    { Handler("start_browser", d, sessionId) : d \in DriverIds, sessionId \in SessionIds }

AttachNext ==
    \/ \E browser \in Browsers, now \in clock..MaxClock : StartBrowserAwaitsBidi(browser, now)
    \/ \E h \in Starters, failAt \in SetupSteps : StartBrowserResumes(h, failAt)
    \/ CloseSessionNoSession
    \/ CloseSessionQuitFails
    \/ CloseSession
    \/ \E logKey \in LogKeys, clear \in BOOLEAN : QueryNoSession(logKey, clear)
    \/ \E logKey \in LogKeys, clear \in BOOLEAN : Query(logKey, clear)
    \/ \E failing \in SUBSET DriverIds : cleanup(failing)

SpecAttach == Init /\ [][AttachNext]_vars

(* ----------------------------------------------------------------------- *)
(*  Signals.  The CLI wrapper forwards SIGTERM and SIGINT to the server    *)
(*  process, whose handler is cleanup; cleanup is split at each             *)
(*  await driver.quit()  of its loop.                                       *)
(* ----------------------------------------------------------------------- *)
Signals == {"SIGTERM", "SIGINT"}

\* a signal delivered to the wrapper process, its handler not yet run
Received(signal) == [tool |-> "wrapper", signal |-> signal]

\* a signal sent to the server process by child.kill, its handler not yet run
Killed(signal) == [tool |-> "kill", signal |-> signal]

\* cleanup, started by signal, awaiting a quit, having passed the keys visited
Cleaning(signal, visited) ==
    [tool |-> "cleanup", signal |-> signal, visited |-> visited]

\* quit is invoked on driver d; the count stops at MaxQuits
Quit(d) == [quits EXCEPT ![d] = IF @ < MaxQuits THEN @ + 1 ELSE @]

\* the environment signals the wrapper process (each signal once)
wrapperSignalled(signal) ==
    /\ running
    /\ \A h \in pending : h.tool \in {"wrapper", "kill", "cleanup"} => h.signal # signal
    /\ pending' = pending \cup {Received(signal)}
    /\ UNCHANGED <<logCache, trackedErrorsCache, raised, drivers, currentSession, bidi, bidiObj, quits, windows,
                   nextDriver, clock, fired, running, last, calls>>

\* the wrapper's handler: child.kill(signal)
wrapperForwards(h) ==
    /\ running
    /\ h \in pending
    /\ h.tool = "wrapper"
    /\ pending' = (pending \ {h}) \cup {Killed(h.signal)}
    /\ UNCHANGED <<logCache, trackedErrorsCache, raised, drivers, currentSession, bidi, bidiObj, quits, windows,
                   nextDriver, clock, fired, running, last, calls>>

\* The loop of cleanup from one await to the next.  The model's mapping keeps
\* no insertion order: the iterator takes the keys it has not passed in any
\* order.  With none left: clear both mappings and process.exit(0).
cleanupLoop(h, signal, visited) ==
    IF DOMAIN drivers \subseteq visited
    THEN /\ pending' = pending \ {h}
         /\ drivers' = EmptyMap
         /\ bidi' = EmptyMap
         /\ bidiObj' = Reachable(bidi', bidiObj)
         /\ currentSession' = Null
         /\ running' = FALSE
         /\ UNCHANGED quits
    ELSE \E sessionId \in DOMAIN drivers \ visited :
            /\ quits' = Quit(drivers[sessionId])
            /\ pending' = (pending \ {h}) \cup {Cleaning(signal, visited \cup {sessionId})}
            /\ UNCHANGED <<drivers, bidi, bidiObj, currentSession, running>>

\* the server's signal handler starts cleanup
cleanupStarts(h) ==
    /\ running
    /\ h \in pending
    /\ h.tool = "kill"
    /\ cleanupLoop(h, h.signal, {})
    /\ UNCHANGED <<logCache, trackedErrorsCache, raised, windows, nextDriver, clock, fired, last, calls>>

\* the quit cleanup awaits settles, resolved or rejected
cleanupResumes(h) ==
    /\ running
    /\ h \in pending
    /\ h.tool = "cleanup"
    /\ cleanupLoop(h, h.signal, h.visited)
    /\ UNCHANGED <<logCache, trackedErrorsCache, raised, windows, nextDriver, clock, fired, last, calls>>

SignalHandlers ==
    { Received(signal) : signal \in Signals }
      \cup { Killed(signal) : signal \in Signals }
      \cup { Cleaning(signal, visited) : signal \in Signals, visited \in SUBSET SessionIds }

SignalNext ==
    \/ \E browser \in Browsers, now \in clock..MaxClock, failAt \in SetupSteps :
          StartBrowser(browser, now, failAt)
    \/ CloseSessionAwaitsQuit
    \/ \E h \in Handlers, quitOk \in BOOLEAN : CloseSessionResumes(h, quitOk)
    \/ CloseCurrentWindowAwaitsQuit
    \/ \E h \in Handlers, quitOk \in BOOLEAN : CloseCurrentWindowResumes(h, quitOk)
    \/ \E signal \in Signals : wrapperSignalled(signal)
    \/ \E h \in SignalHandlers : wrapperForwards(h)
    \/ \E h \in SignalHandlers : cleanupStarts(h)
    \/ \E h \in SignalHandlers : cleanupResumes(h)

SpecSignal == Init /\ [][SignalNext]_vars

\* the event loop runs every handler that is ready, and every quit settles
SpecSignalFair ==
    /\ SpecSignal
    /\ WF_vars(\E h \in SignalHandlers : wrapperForwards(h))
    /\ WF_vars(\E h \in SignalHandlers : cleanupStarts(h))
    /\ WF_vars(\E h \in SignalHandlers : cleanupResumes(h))

(* ------------- the retrying server (src/lib/server.js:1-1611) ---------- *)
\* This version of server.js has no state.bidi, answers errors without
\* isError, and its start_browser launches in a loop.
maxRetries == 3

\* what one launch attempt ends in: a driver, an error whose message
\* isVersionMismatchError matches, or another error
LaunchOutcomes == {"ok", "mismatch", "other"}

\* the catch blocks of this version: the error text alone
PlainError(tool, message, ops) ==
    Call(tool, FALSE, message, Null, ops, <<>>)

\* formatBrowserStartupError(browser, lastError)
formatBrowserStartupError(lastError) ==
    IF lastError = "mismatch"
    THEN "Error starting: Driver version mismatch detected"
    ELSE "Error starting: Common solutions"

\* the loop keeping the error of the first failed attempt
RECURSIVE LaunchLoop_KeepsFirstError(_, _, _)
LaunchLoop_KeepsFirstError(outcomes, attempt, lastError) ==
    LET e(x) == IF lastError = "none" THEN x ELSE lastError
    IN  IF attempt > maxRetries
        THEN [made |-> attempt - 1, ok |-> FALSE, lastError |-> lastError]
        ELSE IF outcomes[attempt] = "ok"
        THEN [made |-> attempt, ok |-> TRUE, lastError |-> lastError]
        ELSE IF outcomes[attempt] = "mismatch"
        THEN LaunchLoop_KeepsFirstError(outcomes, attempt + 1, e("mismatch"))
        ELSE IF attempt = maxRetries
        THEN [made |-> attempt, ok |-> FALSE, lastError |-> e("other")]
        ELSE LaunchLoop_KeepsFirstError(outcomes, attempt + 1, e("other"))

\* the loop  for (attempt = 1; attempt <= maxRetries; attempt++)  from
\* attempt on: the attempts made when it is left, whether by the return,
\* and lastError
RECURSIVE LaunchLoop(_, _, _)
LaunchLoop(outcomes, attempt, lastError) ==
    IF attempt > maxRetries
    THEN [made |-> attempt - 1, ok |-> FALSE, lastError |-> lastError]
    ELSE IF outcomes[attempt] = "ok"
    THEN [made |-> attempt, ok |-> TRUE, lastError |-> lastError]
    ELSE IF outcomes[attempt] = "mismatch"
    THEN LaunchLoop(outcomes, attempt + 1, "mismatch")
    ELSE IF attempt = maxRetries
    THEN [made |-> attempt, ok |-> FALSE, lastError |-> "other"]
    ELSE LaunchLoop(outcomes, attempt + 1, "other")

\* one build() per attempt made
Builds(n) == [i \in 1..n |-> "build"]

\* the response of the retrying start_browser, with what each attempt would
\* end in
LaunchCall(c, outcomes) ==
    [tool |-> c.tool, isError |-> c.isError, text |-> c.text, sid |-> c.sid,
     ops |-> c.ops, logs |-> c.logs, clear |-> c.clear, fired |-> c.fired,
     outcomes |-> outcomes]

\* start_browser of the retrying server; outcomes[i] is what attempt i would
\* end in
RetryingStartBrowser(browser, now, outcomes) ==
    /\ running
    /\ LET r == LaunchLoop(outcomes, 1, "none")
       IN  IF r.ok
           THEN /\ nextDriver <= MaxDrivers
                /\ drivers' = MapSet(drivers, SessionId(browser, now), nextDriver)
                /\ currentSession' = SessionId(browser, now)
                /\ windows' = [windows EXCEPT ![nextDriver] = 1]
                /\ nextDriver' = nextDriver + 1
                /\ Respond(LaunchCall(Call("start_browser", FALSE, StartedMsg(FALSE),
                               SessionId(browser, now), Builds(r.made), <<>>), outcomes))
           ELSE /\ Respond(LaunchCall(PlainError("start_browser",
                               formatBrowserStartupError(r.lastError), Builds(r.made)), outcomes))
                /\ UNCHANGED <<drivers, currentSession, windows, nextDriver>>
    /\ clock' = now
    /\ UNCHANGED <<logCache, trackedErrorsCache, pending, raised, bidi, bidiObj, quits, fired, running>>

RetryingCloseSessionNoSession ==
    /\ running
    /\ getDriver = NoDriver
    /\ Respond(PlainError("close_session", NoActiveMsg, <<>>))
    /\ UNCHANGED <<logCache, trackedErrorsCache, pending, raised, drivers, currentSession, bidi, bidiObj, quits,
                   windows, nextDriver, clock, fired, running>>

RetryingCloseSessionQuitFails ==
    /\ running
    /\ getDriver # NoDriver
    /\ quits[getDriver] < MaxQuits
    /\ quits' = [quits EXCEPT ![getDriver] = @ + 1]
    /\ Respond(PlainError("close_session", DriverErrorMsg, <<"quit">>))
    /\ UNCHANGED <<logCache, trackedErrorsCache, pending, raised, drivers, currentSession, bidi, bidiObj,
                   windows, nextDriver, clock, fired, running>>

RetryingCloseSession ==
    /\ running
    /\ getDriver # NoDriver
    /\ quits[getDriver] < MaxQuits
    /\ quits' = [quits EXCEPT ![getDriver] = @ + 1]
    /\ windows' = [windows EXCEPT ![getDriver] = 0]
    /\ drivers' = MapDelete(drivers, currentSession)
    /\ currentSession' = Null
    /\ Respond(Call("close_session", FALSE, ClosedMsg, currentSession,
                   <<"quit">>, <<>>))
    /\ UNCHANGED <<logCache, trackedErrorsCache, pending, raised, bidi, bidiObj, nextDriver, clock, fired, running>>

\* cleanup of this version: the same loop, no state.bidi to clear
RetryingCleanup(failing) ==
    /\ running
    /\ failing \subseteq Range(drivers)
    /\ \A d \in Range(drivers) : quits[d] < MaxQuits
    /\ quits' = [d \in DriverIds |-> IF d \in Range(drivers) THEN quits[d] + 1 ELSE quits[d]]
    /\ drivers' = EmptyMap
    /\ currentSession' = Null
    /\ running' = FALSE
    /\ UNCHANGED <<logCache, trackedErrorsCache, pending, raised, bidi, bidiObj, windows, nextDriver, clock, fired, last, calls>>

RetryNext ==
    \/ \E browser \in Browsers, now \in clock..MaxClock,
          outcomes \in [1..maxRetries -> LaunchOutcomes] :
          RetryingStartBrowser(browser, now, outcomes)
    \/ RetryingCloseSessionNoSession
    \/ RetryingCloseSessionQuitFails
    \/ RetryingCloseSession
    \/ \E failing \in SUBSET DriverIds : RetryingCleanup(failing)

SpecRetry == Init /\ [][RetryNext]_vars

(* ======================================================================= *)
(*  The log-cache server (src/src/lib/server.js, third version):            *)
(*  get_console_logs caches the Selenium logs and the tracked errors of    *)
(*  the page per session, get_error_stacktrace answers from the caches.    *)
(*  A message is the sequence of its characters.                           *)
(* ======================================================================= *)
MaxLogs   == 2       \* Selenium log entries returned by one logs().get()
MaxMsgLen == 2       \* characters in a message

\* the window of deduplicateLogs, in milliseconds
DedupWindow == 1000

Stamps   == {0, DedupWindow - 1, 2 * DedupWindow - 1}
MsgChars == {"a", " "}
Messages == UNION { [1..n -> MsgChars] : n \in 1..MaxMsgLen }

\* an entry of driver.manage().logs().get(logType)
SeleniumLog(timestamp, message) ==
    [timestamp |-> timestamp, level |-> "SEVERE", message |-> message]

\* an entry of window.__mcpErrorLog
TrackedError(timestamp, message) ==
    [timestamp |-> timestamp, type |-> "error", message |-> message, stack |-> TRUE]

SeleniumLogs  == { SeleniumLog(t, m) : t \in Stamps, m \in Messages }
TrackedErrors == { TrackedError(t, m) : t \in Stamps, m \in Messages }

\* String.prototype.includes
includes(s, t) ==
    \E i \in 0..(Len(s) - Len(t)) : SubSeq(s, i + 1, i + Len(t)) = t

\* message.split(' ').slice(-1)[0]: what follows the last space
lastWord(message) ==
    LET spaces == { i \in 1..Len(message) : message[i] = " " }
    IN  IF spaces = {} THEN message
        ELSE LET k == CHOOSE i \in spaces : \A j \in spaces : j <= i
             IN  SubSeq(message, k + 1, Len(message))

\* the test of the inner loop of deduplicateLogs on a Selenium entry (other)
\* and a tracked entry
matches(other, entry) ==
    /\ ( IF other.timestamp >= entry.timestamp
         THEN other.timestamp - entry.timestamp
         ELSE entry.timestamp - other.timestamp ) < DedupWindow
    /\ \/ includes(other.message, entry.message)
       \/ includes(entry.message, lastWord(other.message))

fromSelenium(log) ==
    [timestamp |-> log.timestamp, source |-> "selenium", level |-> log.level,
     message |-> log.message]

fromTracked(error) ==
    [timestamp |-> error.timestamp, source |-> "tracked", level |-> "SEVERE",
     type |-> error.type, message |-> error.message, hasStack |-> error.stack]

\* Array.prototype.sort by timestamp, which is stable: e goes behind the
\* entries that are not later than it
RECURSIVE insertSorted(_, _)
insertSorted(sorted, e) ==
    IF sorted = <<>> \/ sorted[Len(sorted)].timestamp <= e.timestamp
    THEN Append(sorted, e)
    ELSE Append(insertSorted(SubSeq(sorted, 1, Len(sorted) - 1), e), sorted[Len(sorted)])

RECURSIVE sortByTimestamp(_)
sortByTimestamp(entries) ==
    IF entries = <<>> THEN <<>>
    ELSE insertSorted(sortByTimestamp(SubSeq(entries, 1, Len(entries) - 1)),
                      entries[Len(entries)])

\* deduplicateLogs(seleniumLogs, trackedErrors)
deduplicateLogs(seleniumLogs, trackedErrors) ==
    LET allEntries == sortByTimestamp(
                          [i \in 1..Len(seleniumLogs) |-> fromSelenium(seleniumLogs[i])]
                          \o [i \in 1..Len(trackedErrors) |-> fromTracked(trackedErrors[i])])
        usedSeleniumTimestamps ==
            { allEntries[j].timestamp : j \in
                { j \in 1..Len(allEntries) :
                    /\ allEntries[j].source = "selenium"
                    /\ \E i \in 1..Len(allEntries) :
                          /\ allEntries[i].source = "tracked"
                          /\ matches(allEntries[j], allEntries[i]) } }
        kept(e) == ~ (e.source = "selenium" /\ e.timestamp \in usedSeleniumTimestamps)
    IN  SelectSeq(allEntries, kept)

NoLogsMsg   == "No console logs or tracked errors found"
NoCachedMsg == "No cached console logs found"
InvalidTimestampMsg == "Invalid timestamp string"
StackMsg    == "Type, Message, Stack Trace"
\* Number.NaN: it equals no timestamp
NaN         == -1

\* start_browser of this version: no diagnostics, no isError
CachingStartBrowserFails(browser) ==
    /\ running
    /\ Respond(PlainError("start_browser", LaunchErrorMsg, <<"build">>))
    /\ UNCHANGED <<logCache, trackedErrorsCache, pending, raised, drivers, currentSession,
                   bidi, bidiObj, quits, windows, nextDriver, clock, fired, running>>

CachingStartBrowser(browser, now) ==
    /\ running
    /\ nextDriver <= MaxDrivers
    /\ drivers' = MapSet(drivers, SessionId(browser, now), nextDriver)
    /\ currentSession' = SessionId(browser, now)
    /\ windows' = [windows EXCEPT ![nextDriver] = 1]
    /\ nextDriver' = nextDriver + 1
    /\ clock' = now
    /\ Respond(Call("start_browser", FALSE, StartedMsg(FALSE),
                   SessionId(browser, now), <<"build">>, <<>>))
    /\ UNCHANGED <<logCache, trackedErrorsCache, pending, raised, bidi, bidiObj,
                   quits, fired, running>>

\* close_session of this version
CachingCloseSessionNoSession ==
    /\ running
    /\ getDriver = NoDriver
    /\ Respond(PlainError("close_session", NoActiveMsg, <<>>))
    /\ UNCHANGED <<logCache, trackedErrorsCache, pending, raised, drivers, currentSession,
                   bidi, bidiObj, quits, windows, nextDriver, clock, fired, running>>

CachingCloseSessionQuitFails ==
    /\ running
    /\ getDriver # NoDriver
    /\ quits[getDriver] < MaxQuits
    /\ quits' = [quits EXCEPT ![getDriver] = @ + 1]
    /\ Respond(PlainError("close_session", DriverErrorMsg, <<"quit">>))
    /\ UNCHANGED <<logCache, trackedErrorsCache, pending, raised, drivers, currentSession,
                   bidi, bidiObj, windows, nextDriver, clock, fired, running>>

CachingCloseSession ==
    /\ running
    /\ getDriver # NoDriver
    /\ quits[getDriver] < MaxQuits
    /\ quits' = [quits EXCEPT ![getDriver] = @ + 1]
    /\ windows' = [windows EXCEPT ![getDriver] = 0]
    /\ drivers' = MapDelete(drivers, currentSession)
    /\ logCache' = MapDelete(logCache, currentSession)
    /\ trackedErrorsCache' = MapDelete(trackedErrorsCache, currentSession)
    /\ currentSession' = Null
    /\ Respond(Call("close_session", FALSE, ClosedMsg, currentSession, <<"quit">>, <<>>))
    /\ UNCHANGED <<pending, raised, bidi, bidiObj, nextDriver, clock, fired, running>>

\* cleanup of this version: the caches are not cleared
CachingCleanup(failing) ==
    /\ running
    /\ failing \subseteq Range(drivers)
    /\ \A d \in Range(drivers) : quits[d] < MaxQuits
    /\ quits' = [d \in DriverIds |-> IF d \in Range(drivers) THEN quits[d] + 1 ELSE quits[d]]
    /\ drivers' = EmptyMap
    /\ currentSession' = Null
    /\ running' = FALSE
    /\ UNCHANGED <<logCache, trackedErrorsCache, pending, raised, bidi, bidiObj,
                   windows, nextDriver, clock, fired, last, calls>>

\* the response of get_console_logs: the lists it gathered and the entries
\* it shows
ConsoleCall(text, seleniumLogs, trackedErrors, shown) ==
    [tool |-> "get_console_logs", isError |-> FALSE, text |-> text, sid |-> Null,
     ops |-> <<"logs">>, logs |-> shown, clear |-> FALSE, fired |-> fired,
     seleniumLogs |-> seleniumLogs, trackedErrors |-> trackedErrors]

GetConsoleLogsNoSession ==
    /\ running
    /\ getDriver = NoDriver
    /\ Respond(PlainError("get_console_logs", NoActiveMsg, <<>>))
    /\ UNCHANGED <<logCache, trackedErrorsCache, pending, raised, drivers, currentSession,
                   bidi, bidiObj, quits, windows, nextDriver, clock, fired, running>>

\* driver.manage().logs().get(logType) rejects
GetConsoleLogsFails ==
    /\ running
    /\ getDriver # NoDriver
    /\ Respond(PlainError("get_console_logs", DriverErrorMsg, <<"logs">>))
    /\ UNCHANGED <<logCache, trackedErrorsCache, pending, raised, drivers, currentSession,
                   bidi, bidiObj, quits, windows, nextDriver, clock, fired, running>>

\* logs().get resolves with logs; executeScript resolves with errorLog
\* (scriptOk) or rejects, which is ignored
GetConsoleLogs(logs, errorLog, scriptOk) ==
    /\ running
    /\ getDriver # NoDriver
    /\ windows[getDriver] > 0
    /\ logCache' = MapSet(logCache, currentSession, logs)
    /\ trackedErrorsCache' = IF scriptOk
                             THEN MapSet(trackedErrorsCache, currentSession, errorLog)
                             ELSE trackedErrorsCache
    /\ LET trackedErrors == IF scriptOk THEN errorLog ELSE <<>>
       IN  IF Len(logs) = 0 /\ Len(trackedErrors) = 0
           THEN Respond(ConsoleCall(NoLogsMsg, logs, trackedErrors, <<>>))
           ELSE Respond(ConsoleCall(EntriesMsg, logs, trackedErrors,
                                    deduplicateLogs(logs, trackedErrors)))
    /\ UNCHANGED <<pending, raised, drivers, currentSession, bidi, bidiObj, quits,
                   windows, nextDriver, clock, fired, running>>

\* the timestamp argument: a number, or a string with the value
\* new Date(timestamp).getTime() gives for it
TimestampArgs ==
    [isString : BOOLEAN, ms : Stamps] \cup { [isString |-> TRUE, ms |-> NaN] }

\* the response of get_error_stacktrace: the argument and the tracked error
\* found for it
StackCall(text, timestamp, found) ==
    [tool |-> "get_error_stacktrace", isError |-> FALSE, text |-> text, sid |-> Null,
     ops |-> <<>>, logs |-> <<>>, clear |-> FALSE, fired |-> fired,
     timestamp |-> timestamp, found |-> found]

\* Map.get(state.currentSession) || []
cached(cache) ==
    IF MapHas(cache, currentSession) THEN cache[currentSession] ELSE <<>>

\* get_error_stacktrace.  With no tracked error of the timestamp the handler
\* runs off the end of its try block and returns undefined.
GetErrorStacktrace(timestamp) ==
    /\ running
    /\ LET logs == cached(logCache)
           trackedErrors == cached(trackedErrorsCache)
           hits == { i \in 1..Len(trackedErrors) : trackedErrors[i].timestamp = timestamp.ms }
       IN  IF Len(logs) = 0 /\ Len(trackedErrors) = 0
           THEN Respond(StackCall(NoCachedMsg, timestamp, Null))
           ELSE IF timestamp.isString /\ timestamp.ms = NaN
           THEN Respond(StackCall(InvalidTimestampMsg, timestamp, Null))
           ELSE IF hits # {}
           THEN Respond(StackCall(StackMsg, timestamp,
                    <<trackedErrors[CHOOSE i \in hits : \A j \in hits : i <= j]>>))
           ELSE Respond(StackCall(Undefined, timestamp, Null))
    /\ UNCHANGED <<logCache, trackedErrorsCache, pending, raised, drivers, currentSession,
                   bidi, bidiObj, quits, windows, nextDriver, clock, fired, running>>

\* what the page's logs and error log hold when the caches are studied
CacheLogs   == { <<>>, <<SeleniumLog(0, <<"a">>)>> }
CacheErrors == { <<>> } \cup { <<TrackedError(t, <<"a">>)>> : t \in {0, DedupWindow - 1} }

CacheNext ==
    \/ \E browser \in Browsers : CachingStartBrowserFails(browser)
    \/ \E browser \in Browsers, now \in clock..MaxClock : CachingStartBrowser(browser, now)
    \/ CachingCloseSessionNoSession
    \/ CachingCloseSessionQuitFails
    \/ CachingCloseSession
    \/ GetConsoleLogsNoSession
    \/ GetConsoleLogsFails
    \/ \E logs \in CacheLogs, errorLog \in CacheErrors, scriptOk \in BOOLEAN :
          GetConsoleLogs(logs, errorLog, scriptOk)
    \/ \E timestamp \in TimestampArgs : GetErrorStacktrace(timestamp)
    \/ \E failing \in SUBSET DriverIds : CachingCleanup(failing)

SpecCache == Init /\ [][CacheNext]_vars

\* the lists of up to n elements of S
SeqsUpTo(S, n) == UNION { [1..k -> S] : k \in 0..n }

\* one session and its first get_console_logs, over every pair of lists
DedupNext ==
    \/ \E browser \in Browsers, now \in clock..MaxClock :
          nextDriver = 1 /\ CachingStartBrowser(browser, now)
    \/ \E logs \in SeqsUpTo(SeleniumLogs, MaxLogs), errorLog \in SeqsUpTo(TrackedErrors, 1) :
          logCache = EmptyMap /\ GetConsoleLogs(logs, errorLog, TRUE)

SpecDedup == Init /\ [][DedupNext]_vars

(* ======================================================================= *)
(*  press_key.  A key is the sequence of its characters.  String.length      *)
(*  counts UTF-16 code units: a character outside the Basic Multilingual    *)
(*  Plane counts two.                                                       *)
(* ======================================================================= *)
MaxKeyLen == 3       \* characters in a key argument

Astral == "U+1F600"
Chars  == {"a", "A", " ", "_", Astral}
Keys   == UNION { [1..n -> Chars] : n \in 0..MaxKeyLen }

\* the names of the Selenium Key table over Chars: a one-word name (as TAB)
\* and a name of two words joined by an underscore (as PAGE_UP)
KeyNames == { <<"A", "A">>, <<"A", "_", "A">> }

\* Key[name]: the key code of a name, undefined for any other property
Key(name) == IF name \in KeyNames THEN <<"Key", name>> ELSE Undefined

codeUnits(c) == IF c = Astral THEN 2 ELSE 1

RECURSIVE length(_)
length(key) ==
    IF key = <<>> THEN 0 ELSE codeUnits(Head(key)) + length(Tail(key))

toUpperCase(key) ==
    [i \in 1..Len(key) |->
        IF key[i] = "a" THEN "A" ELSE key[i]]

\* key.replace(/ /g, '_')
replaceSpaces(key) ==
    [i \in 1..Len(key) |-> IF key[i] = " " THEN "_" ELSE key[i]]

\* key.length === 1 ? key : Key[key.toUpperCase().replace(/ /g, '_')] ?? null
resolvedKey(key) ==
    IF length(key) = 1
    THEN key
    ELSE IF Key(replaceSpaces(toUpperCase(key))) = Undefined
         THEN Null
         ELSE Key(replaceSpaces(toUpperCase(key)))

UnknownKeyMsg == "Error pressing key: Unknown key name"
KeyPressedMsg == "Key pressed"

\* the response of press_key: the key asked for and the keys sent to the driver
KeyCall(isError, text, ops, key, sent) ==
    [tool |-> "press_key", isError |-> isError, text |-> text, sid |-> Null,
     ops |-> ops, logs |-> <<>>, clear |-> FALSE, fired |-> fired,
     key |-> key, sent |-> sent]

\* getDriver() throws
PressKeyNoSession(key) ==
    /\ running
    /\ getDriver = NoDriver
    /\ Respond(KeyCall(TRUE, NoActiveMsg, <<>>, key, <<>>))
    /\ UNCHANGED <<logCache, trackedErrorsCache, pending, raised, drivers, currentSession, bidi, bidiObj, quits,
                   windows, nextDriver, clock, fired, running>>

\* the name resolves to nothing: the handler returns before driver.actions
PressKeyUnknown(key) ==
    /\ running
    /\ getDriver # NoDriver
    /\ resolvedKey(key) = Null
    /\ Respond(KeyCall(TRUE, UnknownKeyMsg, <<>>, key, <<>>))
    /\ UNCHANGED <<logCache, trackedErrorsCache, pending, raised, drivers, currentSession, bidi, bidiObj, quits,
                   windows, nextDriver, clock, fired, running>>

\* perform() rejects
PressKeyFails(key) ==
    /\ running
    /\ getDriver # NoDriver
    /\ resolvedKey(key) # Null
    /\ Respond(KeyCall(TRUE, DriverErrorMsg, <<"perform">>, key, <<>>))
    /\ UNCHANGED <<logCache, trackedErrorsCache, pending, raised, drivers, currentSession, bidi, bidiObj, quits,
                   windows, nextDriver, clock, fired, running>>

\* keyDown(resolvedKey).keyUp(resolvedKey).perform() resolves
PressKey(key) ==
    /\ running
    /\ getDriver # NoDriver
    /\ resolvedKey(key) # Null
    /\ Respond(KeyCall(FALSE, KeyPressedMsg, <<"perform">>, key, <<resolvedKey(key)>>))
    /\ UNCHANGED <<logCache, trackedErrorsCache, pending, raised, drivers, currentSession, bidi, bidiObj, quits,
                   windows, nextDriver, clock, fired, running>>

KeysNext ==
    \/ \E browser \in Browsers, now \in clock..MaxClock, failAt \in SetupSteps :
          StartBrowser(browser, now, failAt)
    \/ CloseSession
    \/ \E key \in Keys : PressKeyNoSession(key)
    \/ \E key \in Keys : PressKeyUnknown(key)
    \/ \E key \in Keys : PressKeyFails(key)
    \/ \E key \in Keys : PressKey(key)

SpecKeys == Init /\ [][KeysNext]_vars

(* ======================================================================= *)
(*                               Properties                                *)
(* ======================================================================= *)
\* a tool call was answered in this step
Answered == calls' # calls

\* the tools whose handler starts with getDriver()
SessionTools ==
    PassTools \cup {"close_session", "close_current_window"}
              \cup {toolName(logKey) : logKey \in LogKeys}

NoSessionResponse(c) == c.isError /\ c.text = NoActiveMsg

\* no close has reached a driver: quit was never invoked
NoQuitYet == \A d \in DriverIds : quits[d] = 0

(* ------------------------------------------------------------------------ *)
\* C1: in every reachable state, a non-null current-session pointer names an
\* entry of the drivers mapping.
C1_CurrentIsRegistered ==
    currentSession # Null => MapHas(drivers, currentSession)

\* a close_session whose quit rejected has just been answered and the
\* session is still current
C1_Witness ==
    /\ last.tool = "close_session"
    /\ last.text = DriverErrorMsg
    /\ currentSession # Null
    /\ Cardinality(DOMAIN drivers) = 1

(* ------------------------------------------------------------------------ *)
\* C2: after N successful start_browser calls and no close, the current
\* session is the one of the latest call and the drivers mapping holds N
\* entries.  nextDriver - 1 is the number of successful calls.
C2_Claim ==
    (running /\ NoQuitYet /\ nextDriver > 1) =>
        /\ getDriver = nextDriver - 1
        /\ Cardinality(DOMAIN drivers) = nextDriver - 1

(* ------------------------------------------------------------------------ *)
\* C3: a session tool called when no session was ever started, or right
\* after a successful close_session, answers the 'No active browser session'
\* error, invokes no driver method, leaves the registry, the buffers and the
\* drivers as they were, and the process keeps running.
C3_NoSessionError ==
    [][ ( /\ Answered
          /\ last'.tool \in SessionTools
          /\ \/ nextDriver = 1
             \/ last.tool = "close_session" /\ ~last.isError )
        => ( /\ NoSessionResponse(last')
             /\ last'.ops = <<>>
             /\ UNCHANGED <<drivers, currentSession, bidi, bidiObj, quits, windows>>
             /\ running' ) ]_vars

\* a session tool has answered the no-session error while an orphaned session
\* is still registered
C3_Witness ==
    /\ last.tool \in SessionTools
    /\ NoSessionResponse(last)
    /\ currentSession = Null
    /\ DOMAIN drivers # {}
    /\ running

(* ------------------------------------------------------------------------ *)
\* C4: two consecutive close_session calls after one start_browser answer
\* success and then the no-session error, and quit is invoked once on the
\* session's driver.  Stated when the second call is answered: the call
\* before it was the first close_session to reach the driver of the only
\* session started (driver 1).
C4_Claim ==
    [][ ( /\ Answered
          /\ last'.tool = "close_session"
          /\ last.tool = "close_session"
          /\ last.ops = <<"quit">>
          /\ quits[1] = 1
          /\ nextDriver = 2 )
        => ( /\ ~last.isError
             /\ NoSessionResponse(last')
             /\ quits'[1] = 1 ) ]_vars

(* ------------------------------------------------------------------------ *)
\* C5: when quit rejects in close_session the error is reported and the
\* session's entry is removed and the current-session pointer cleared.
C5_Claim ==
    [][ ( /\ Answered
          /\ last'.tool = "close_session"
          /\ last'.ops = <<"quit">>
          /\ last'.text = DriverErrorMsg )
        => ( /\ last'.isError
             /\ ~MapHas(drivers', currentSession)
             /\ currentSession' = Null ) ]_vars

(* ------------------------------------------------------------------------ *)
\* C6: start_browser creates s1 (driver 1) and then s2 (driver 2): s2 is
\* current; the close_session that follows closes s2 and names it, leaves
\* no session current, and s1's driver is still registered and not quit.
C6_Claim ==
    [][ ( /\ last.tool = "start_browser" /\ ~last.isError
          /\ nextDriver = 3
          /\ NoQuitYet )
        => ( /\ getDriver = 2
             /\ (Answered /\ last'.tool = "close_session" /\ ~last'.isError)
                  => ( /\ last'.sid = currentSession
                       /\ quits'[2] = 1
                       /\ getDriver' = NoDriver
                       /\ 1 \in Range(drivers')
                       /\ quits'[1] = 0 ) ) ]_vars

(* ------------------------------------------------------------------------ *)
\* C7: a start_browser whose launch fails (build was invoked, no driver came
\* out of it) adds nothing to the drivers mapping or the diagnostics
\* mapping, keeps the current-session pointer and answers an error.
C7_LaunchFailureLeavesState ==
    [][ ( /\ Answered
          /\ last'.tool = "start_browser"
          /\ last'.ops = <<"build">>
          /\ nextDriver' = nextDriver )
        => ( /\ UNCHANGED <<drivers, bidi, bidiObj, currentSession>>
             /\ last'.isError ) ]_vars

\* a launch has failed while a session was current, and it still is
C7_Witness ==
    /\ last.tool = "start_browser"
    /\ last.isError
    /\ getDriver # NoDriver

(* ------------------------------------------------------------------------ *)
\* C8: when setupBidi fails for the freshly launched driver d, start_browser
\* answers success, d is registered under the identifier the response names
\* and is current, and its diagnostics are unavailable: the response does not
\* announce BiDi and a query would answer the unavailable message.
C8_Claim ==
    [][ ( /\ Answered
          /\ last'.tool = "start_browser"
          /\ nextDriver' = nextDriver + 1
          /\ ~bidiObj'[nextDriver].available )
        => ( /\ ~last'.isError
             /\ currentSession' = last'.sid
             /\ getDriver' = nextDriver
             /\ last'.text = StartedMsg(FALSE)
             /\ ~BidiAvailable' ) ]_vars

(* ------------------------------------------------------------------------ *)
\* C9: while a session whose setupBidi failed is current, every diagnostics
\* query answers the unavailable message of its class.
C9_Claim ==
    [][ \A logKey \in LogKeys :
          ( /\ Answered
            /\ last'.tool = toolName(logKey)
            /\ getDriver # NoDriver
            /\ ~bidiObj[getDriver].available )
          => ( /\ last'.text = unavailableMessage(logKey)
               /\ last'.logs = <<>> ) ]_vars

(* ------------------------------------------------------------------------ *)
\* C10: on a current session whose setupBidi succeeded, a query of a class
\* whose sequence is empty answers that class's empty message, with or
\* without clear, and not as an error.
C10_EmptyMessage ==
    [][ \A logKey \in LogKeys :
          ( /\ Answered
            /\ last'.tool = toolName(logKey)
            /\ getDriver # NoDriver
            /\ bidiObj[getDriver].available
            /\ bidiObj[getDriver][logKey] = <<>> )
          => ( /\ ~last'.isError
               /\ last'.text = emptyMessage(logKey)
               /\ last'.logs = <<>> ) ]_vars

\* a console query has answered the empty message on a session that has
\* captured a page error
C10_Witness ==
    /\ last.tool = "get_console_logs"
    /\ last.text = emptyMessage("consoleLogs")
    /\ getDriver # NoDriver
    /\ bidiObj[getDriver].available
    /\ bidiObj[getDriver].pageErrors # <<>>

(* ------------------------------------------------------------------------ *)
\* the sequence of class logKey a query of the current session reads
CurrentLogs(logKey) == bidiObj[bidi[currentSession]][logKey]

\* a query of class logKey is answered in this step from the bidi object of
\* the current session
Queries(logKey) ==
    /\ Answered
    /\ last'.tool = toolName(logKey)
    /\ getDriver # NoDriver
    /\ BidiAvailable

\* the entries of logs are in firing order
InFiringOrder(logs) ==
    \A i, j \in 1..Len(logs) : i < j => logs[i].n < logs[j].n

IsPrefix(s, t) ==
    Len(s) <= Len(t) /\ SubSeq(t, 1, Len(s)) = s

\* C11: a clear=true query on a sequence of three entries returns exactly
\* these three in their order, and the next query of the class, no event
\* having fired since, answers the empty message of the class.
C11_ClearThenEmpty ==
    [][ \A logKey \in LogKeys :
          /\ ( Queries(logKey) /\ last'.clear /\ Len(CurrentLogs(logKey)) = 3 )
             => ( /\ ~last'.isError
                  /\ last'.text = EntriesMsg
                  /\ last'.logs = CurrentLogs(logKey) )
          /\ ( /\ Answered
               /\ last.tool = toolName(logKey) /\ last.clear /\ Len(last.logs) = 3
               /\ last.fired = fired
               /\ last'.tool = toolName(logKey) )
             => ( /\ ~last'.isError
                  /\ last'.text = emptyMessage(logKey)
                  /\ last'.logs = <<>> ) ]_vars

\* a clear=true query has just returned a response event followed by two
\* fetch errors; no event has fired since
C11_Witness ==
    /\ last.tool = "get_network_logs"
    /\ last.clear
    /\ Len(last.logs) = 3
    /\ last.logs[1].type = "response"
    /\ last.logs[3].type = "error"
    /\ last.fired = fired
    /\ BidiAvailable

(* ------------------------------------------------------------------------ *)
\* C12: a query returns the entries of its class in the order in which their
\* events fired, however many other steps lie between the events and the
\* query.
C12_FiringOrder ==
    [][ \A logKey \in LogKeys :
          Queries(logKey)
          => ( /\ last'.logs = CurrentLogs(logKey)
               /\ InFiringOrder(last'.logs) ) ]_vars

\* three page errors were returned by a query made after a second session
\* had been started and a quit invoked
C12_Witness ==
    /\ last.tool = "get_page_errors"
    /\ Len(last.logs) = 3
    /\ nextDriver = 3
    /\ \E d \in DriverIds : quits[d] > 0

(* ------------------------------------------------------------------------ *)
\* C13: across capture callbacks and queries, an entry leaves the sequence of
\* a registered bidi object only in a clear=true query that returns it and
\* empties the sequence, a sequence otherwise only grows at its end by
\* entries of events not fired before, and one event adds at most one entry.
C13_ExactlyOnce ==
    [][ ( fired' # fired \/ (Answered /\ \E k \in LogKeys : last'.tool = toolName(k)) )
        => /\ \A d \in Range(bidi), logKey \in LogKeys :
                IF Queries(logKey) /\ last'.clear /\ bidi[currentSession] = d
                THEN /\ last'.logs = bidiObj[d][logKey]
                     /\ bidiObj'[d][logKey] = <<>>
                ELSE /\ IsPrefix(bidiObj[d][logKey], bidiObj'[d][logKey])
                     /\ \A i \in (Len(bidiObj[d][logKey]) + 1)..Len(bidiObj'[d][logKey]) :
                           bidiObj'[d][logKey][i].n > fired
           /\ \A d \in DriverIds, k \in LogKeys :
                Len(bidiObj'[d][k]) > Len(bidiObj[d][k])
                => \A e \in DriverIds, l \in LogKeys :
                      <<d, k>> # <<e, l>> => Len(bidiObj'[e][l]) <= Len(bidiObj[e][l]) ]_vars

\* a clear=true query has returned the second event alone: the first was
\* returned by an earlier clear=true query and the third is still stored
C13_Witness ==
    /\ last.tool = "get_console_logs"
    /\ last.clear
    /\ Len(last.logs) = 1
    /\ last.logs[1].n = 2
    /\ BidiAvailable
    /\ Len(CurrentLogs("consoleLogs")) = 1
    /\ CurrentLogs("consoleLogs")[1].n = 3
    /\ CurrentLogs("pageErrors") = <<>>
    /\ CurrentLogs("networkLogs") = <<>>

(* ------------------------------------------------------------------------ *)
\* C14: a clear=false query changes no sequence, and two consecutive
\* clear=false queries of one class with no event fired between them give
\* the same response.
C14_ReadKeeps ==
    [][ \A logKey \in LogKeys :
          /\ ( Answered /\ last'.tool = toolName(logKey) /\ ~last'.clear )
             => UNCHANGED bidiObj
          /\ ( /\ Answered
               /\ last.tool = toolName(logKey) /\ ~last.clear
               /\ last.fired = fired
               /\ last'.tool = toolName(logKey) /\ ~last'.clear )
             => ( /\ last'.isError = last.isError
                  /\ last'.text = last.text
                  /\ last'.logs = last.logs ) ]_vars

\* a clear=false query has returned two console entries, both still stored
C14_Witness ==
    /\ last.tool = "get_console_logs"
    /\ ~last.clear
    /\ Len(last.logs) = 2
    /\ BidiAvailable
    /\ CurrentLogs("consoleLogs") = last.logs

(* ------------------------------------------------------------------------ *)
\* C15: a start_browser that follows a successful close_session and attaches
\* diagnostics leaves the new session with three empty sequences; and a query
\* that follows a start_browser with diagnostics attached returns no entry of
\* an event fired before that start, and the empty message when no event
\* fired since.
C15_StartsEmpty ==
    [][ /\ ( /\ Answered
             /\ last.tool = "close_session" /\ ~last.isError
             /\ last'.tool = "start_browser" /\ ~last'.isError
             /\ bidiObj'[nextDriver].available )
           => ( /\ BidiAvailable'
                /\ \A logKey \in LogKeys : CurrentLogs(logKey)' = <<>> )
        /\ \A logKey \in LogKeys :
             ( /\ Answered
               /\ last.tool = "start_browser" /\ ~last.isError
               /\ getDriver # NoDriver /\ bidiObj[getDriver].available
               /\ last'.tool = toolName(logKey) )
             => ( /\ \A i \in 1..Len(last'.logs) : last'.logs[i].n > last.fired
                  /\ last.fired = fired => last'.text = emptyMessage(logKey) ) ]_vars

\* the second session was started, with diagnostics attached, after the first
\* had captured every event of the run and been closed
C15_Witness ==
    /\ last.tool = "start_browser"
    /\ last.text = StartedMsg(TRUE)
    /\ last.fired = MaxCaptured
    /\ getDriver = 2
    /\ quits[1] = 1
    /\ Cardinality(DOMAIN drivers) = 1
    /\ \A logKey \in LogKeys : CurrentLogs(logKey) = <<>>

(* ------------------------------------------------------------------------ *)
\* C16: in a teardown the session's diagnostics state is removed before quit
\* is invoked on its driver, so once quit has been invoked on a driver no
\* capture callback appends to a sequence of that driver's session.
C16_Claim ==
    [][ \A d \in DriverIds, logKey \in LogKeys :
          ( quits[d] > 0 /\ running )
          => Len(bidiObj'[d][logKey]) <= Len(bidiObj[d][logKey]) ]_vars

(* ------------------------------------------------------------------------ *)
\* C17: the cleanup step invokes quit once on every driver of the drivers
\* mapping, whichever session is current and whichever quits reject, on no
\* other driver, and leaves both mappings empty and no session current.
C17_CleanupQuitsAll ==
    [][ ( running /\ ~running' )
        => ( /\ \A d \in DriverIds :
                  quits'[d] = IF d \in Range(drivers) THEN quits[d] + 1 ELSE quits[d]
             /\ drivers' = EmptyMap
             /\ bidi' = EmptyMap
             /\ currentSession' = Null ) ]_vars

\* cleanup has run after the second of two sessions was closed: no session
\* was current and the first session's driver was quit by cleanup
C17_Witness ==
    /\ ~running
    /\ last.tool = "close_session" /\ ~last.isError
    /\ last.sid = <<"chrome", 1>>
    /\ nextDriver = 3
    /\ quits = [d \in DriverIds |-> 1]
    /\ drivers = EmptyMap /\ bidi = EmptyMap /\ currentSession = Null

(* ------------------------------------------------------------------------ *)
\* C18: the identifier a successful start_browser issues is new: registering
\* the session under it replaces no entry of the drivers mapping.
C18_Claim ==
    [][ ( Answered /\ last'.tool = "start_browser" /\ ~last'.isError )
        => ( /\ ~MapHas(drivers, last'.sid)
             /\ Cardinality(DOMAIN drivers') = Cardinality(DOMAIN drivers) + 1 ) ]_vars

(* ------------------------------------------------------------------------ *)
\* C19: a start_browser call makes exactly one launch attempt, whether it
\* succeeds or fails.
C19_Claim ==
    [][ ( Answered /\ last'.tool = "start_browser" )
        => last'.ops = <<"build">> ]_vars

(* ------------------------------------------------------------------------ *)
\* C20: a pass-through tool whose driver call fails or whose wait expires
\* answers an error, leaves the drivers mapping, the current-session pointer
\* and the diagnostics mapping and buffers unchanged and quits no driver: the
\* driver the next call gets is the one this call got.
C20_FailureKeepsSession ==
    [][ ( /\ Answered
          /\ last'.tool \in PassTools
          /\ last'.ops = <<"call">>
          /\ last'.text = DriverErrorMsg )
        => ( /\ last'.isError
             /\ UNCHANGED <<drivers, currentSession, bidi, bidiObj, quits, windows>>
             /\ getDriver' # NoDriver
             /\ getDriver' = getDriver
             /\ running' ) ]_vars

\* find_element has failed on the second session, which is still current,
\* with its captured entry still stored
C20_Witness ==
    /\ last.tool = "find_element"
    /\ last.isError
    /\ last.text = DriverErrorMsg
    /\ getDriver = 2
    /\ BidiAvailable
    /\ \E logKey \in LogKeys : CurrentLogs(logKey) # <<>>

(* ------------------------------------------------------------------------ *)
\* the texts of the responses that report a failure
FailureTexts ==
    { NoActiveMsg, DriverErrorMsg, LaunchErrorMsg, UnknownKeyMsg,
      formatBrowserStartupError("mismatch"), formatBrowserStartupError("other") }

\* C21: a response has isError set exactly when it reports a failure.
C21_Claim ==
    [][ Answered => ( last'.isError <=> last'.text \in FailureTexts ) ]_vars

(* ------------------------------------------------------------------------ *)
\* C22: no capture callback throws to the driver's event dispatcher, whatever
\* payload it is handed.
C22_NeverRaises == ~raised

\* two events have been delivered to the only session since it started and
\* nothing was stored or queried: both payloads were null or undefined
C22_Witness ==
    /\ fired = MaxDelivered
    /\ last.tool = "start_browser" /\ last.fired = 0
    /\ nextDriver = 2
    /\ BidiAvailable
    /\ \A logKey \in LogKeys : CurrentLogs(logKey) = <<>>

(* ------------------------------------------------------------------------ *)
\* C23: a malformed or partial payload is skipped: no stored log entry lacks
\* its level or its text, and no stored network entry lacks the url of its
\* request.
C23_Claim ==
    \A d \in DriverIds :
        /\ \A logKey \in {"consoleLogs", "pageErrors"} :
              \A i \in 1..Len(bidiObj[d][logKey]) :
                 /\ bidiObj[d][logKey][i].level # Undefined
                 /\ bidiObj[d][logKey][i].text # Undefined
        /\ \A i \in 1..Len(bidiObj[d].networkLogs) :
              bidiObj[d].networkLogs[i].url # Undefined

(* ------------------------------------------------------------------------ *)
\* the closed set of levels of the spec
ClosedLevels == {"error", "warning", "info", "debug"}

\* C24: every stored console entry that has a level has one of the closed
\* set, whatever name the backend gave it.
C24_Claim ==
    \A d \in DriverIds :
        \A i \in 1..Len(bidiObj[d].consoleLogs) :
            bidiObj[d].consoleLogs[i].level # Undefined
            => bidiObj[d].consoleLogs[i].level \in ClosedLevels

(* ------------------------------------------------------------------------ *)
\* C25: a close_current_window that succeeds does not end the session: the
\* session stays registered and current.
C25_Claim ==
    [][ ( Answered /\ last'.tool = "close_current_window" /\ ~last'.isError )
        => ( /\ currentSession' = currentSession
             /\ getDriver' # NoDriver
             /\ getDriver' = getDriver ) ]_vars

(* ------------------------------------------------------------------------ *)
\* C26: a registered session that is not current does not become current,
\* is quit by no tool call and stays in the drivers mapping; the shutdown
\* cleanup is the step that quits it.
C26_Claim ==
    [][ \A d \in DriverIds :
          /\ ( running /\ d \in Range(drivers) /\ getDriver # d )
             => ( /\ getDriver' # d
                  /\ IF running'
                     THEN quits'[d] = quits[d] /\ d \in Range(drivers')
                     ELSE quits'[d] = quits[d] + 1 )
          /\ ( /\ getDriver = d
               /\ Answered /\ last'.tool = "start_browser" /\ ~last'.isError )
             => ( /\ getDriver' # d
                  /\ quits'[d] = quits[d]
                  /\ d \in Range(drivers') ) ]_vars

IsSingleCharacter(key) == Len(key) = 1
IsName(key) == Len(key) > 1

\* the name of the Key table that key spells, letter case aside
TableNames(key) == { name \in KeyNames : toUpperCase(key) = name }

\* C27: with a session current and the driver accepting the action,
\* press_key sends a single-character key unchanged, sends the key code of a
\* multi-character name found in the Key table by case-insensitive lookup,
\* and answers a name absent from the table with the 'Unknown key name'
\* error without sending a key.
C27_Claim ==
    [][ ( /\ Answered
          /\ last'.tool = "press_key"
          /\ getDriver # NoDriver
          /\ last'.text # DriverErrorMsg )
        => LET key == last'.key
           IN  /\ IsSingleCharacter(key)
                  => ~last'.isError /\ last'.sent = <<key>>
               /\ ( IsName(key) /\ TableNames(key) # {} )
                  => /\ ~last'.isError
                     /\ \E name \in TableNames(key) : last'.sent = <<Key(name)>>
               /\ ( IsName(key) /\ TableNames(key) = {} )
                  => /\ last'.isError
                     /\ last'.text = UnknownKeyMsg
                     /\ last'.sent = <<>>
                     /\ last'.ops = <<>> ]_vars

(* ------------------------------------------------------------------------ *)
\* C29: a clear=true query of one class empties the sequence of that class
\* of the current session and changes nothing else: the other two sequences
\* of the session, its available flag and every other bidi object stay as
\* they were.
C29_ClearsOnlyItsClass ==
    [][ \A logKey \in LogKeys :
          ( Queries(logKey) /\ last'.clear )
          => LET b == bidi[currentSession]
             IN  /\ bidiObj'[b][logKey] = <<>>
                 /\ bidiObj'[b].available = bidiObj[b].available
                 /\ \A k \in LogKeys \ {logKey} : bidiObj'[b][k] = bidiObj[b][k]
                 /\ \A d \in DriverIds \ {b} : bidiObj'[d] = bidiObj[d] ]_vars

\* a clear=true query has returned and emptied the console entries of the
\* current session, whose page errors and the console entries of the other
\* registered session are still stored
C29_Witness ==
    /\ last.tool = "get_console_logs"
    /\ last.clear
    /\ Len(last.logs) = 1
    /\ BidiAvailable
    /\ CurrentLogs("consoleLogs") = <<>>
    /\ Len(CurrentLogs("pageErrors")) = 1
    /\ \E d \in Range(bidi) :
          d # bidi[currentSession] /\ Len(bidiObj[d].consoleLogs) = 1

(* ------------------------------------------------------------------------ *)
\* C30: when handlers interleave at their await points, the identifier a
\* closing handler removes from the drivers mapping is the identifier of the
\* driver that handler holds and quits, whenever that driver is registered.
C30_Claim ==
    [][ \A h \in pending \ pending', sid \in SessionIds :
          ( /\ MapHas(drivers, sid)
            /\ ~MapHas(drivers', sid)
            /\ h.driver \in Range(drivers) )
          => drivers[sid] = h.driver ]_vars

(* ------------------------------------------------------------------------ *)
\* C31: in every interleaving of close_session, close_current_window and
\* the signal-triggered cleanup, quit is invoked at most once on any driver.
C31_Claim ==
    \A d \in DriverIds : quits[d] <= 1

(* ------------------------------------------------------------------------ *)
\* C32: in every reachable state, also when close_session runs while
\* start_browser awaits the diagnostics attach, every session identifier
\* with an entry in the diagnostics mapping has an entry in the drivers
\* mapping.
C32_Claim ==
    DOMAIN bidi \subseteq DOMAIN drivers

(* ------------------------------------------------------------------------ *)
\* C33: a diagnostics query answers from the entries captured from the
\* current session's driver (bidiObj[d] is what the callbacks of driver d
\* push into), and an event of another driver changes no sequence the
\* current session is answered from.
C33_Claim ==
    [][ /\ \A logKey \in LogKeys :
              Queries(logKey) => bidi[currentSession] = getDriver
        /\ ( /\ fired' # fired
             /\ getDriver # NoDriver
             /\ MapHas(bidi, currentSession) )
           => \A d \in DriverIds \ {getDriver} :
                 bidiObj'[d] # bidiObj[d] => bidi[currentSession] # d ]_vars

(* ------------------------------------------------------------------------ *)
\* C34: the start_browser response announces 'BiDi enabled' exactly when the
\* session it made current has diagnostics available; availability does not
\* change while the session stays current; and a query of the current
\* session answers the unavailable message exactly when diagnostics are not
\* available.
C34_AvailabilityFixed ==
    [][ LET started == Answered /\ last'.tool = "start_browser" /\ ~last'.isError
        IN  /\ started => ( last'.text = StartedMsg(TRUE) <=> BidiAvailable' )
            /\ ( ~started /\ currentSession # Null /\ currentSession' = currentSession )
               => ( BidiAvailable' <=> BidiAvailable )
            /\ \A logKey \in LogKeys :
                  ( Answered /\ last'.tool = toolName(logKey) /\ getDriver # NoDriver )
                  => ( last'.text = unavailableMessage(logKey) <=> ~BidiAvailable ) ]_vars

\* a query of a session announced without BiDi answered the unavailable
\* message, after an earlier session with BiDi had captured an event
C34_Witness ==
    /\ last.tool = "get_page_errors"
    /\ last.text = unavailableMessage("pageErrors")
    /\ last.fired = 1
    /\ nextDriver = 3
    /\ currentSession # Null
    /\ ~BidiAvailable
    /\ \E d \in Range(bidi) : Len(bidiObj[d].consoleLogs) = 1

(* ------------------------------------------------------------------------ *)
\* C35: a call of the retrying start_browser makes between one and
\* maxRetries launch attempts; when it succeeds the attempt that succeeded is
\* the last one made and the only one that would succeed so far, and exactly
\* one session is registered; otherwise every attempt failed, nothing is
\* registered and the response is the error text built from the error of
\* the last attempt.
C35_BoundedRetries ==
    [][ ( Answered /\ last'.tool = "start_browser" )
        => LET outcomes == last'.outcomes
               made == Len(last'.ops)
           IN  /\ made \in 1..maxRetries
               /\ last'.ops = Builds(made)
               /\ IF last'.sid # Null
                  THEN /\ outcomes[made] = "ok"
                       /\ \A i \in 1..(made - 1) : outcomes[i] # "ok"
                       /\ last'.text = StartedMsg(FALSE)
                       /\ drivers' = MapSet(drivers, last'.sid, nextDriver)
                       /\ currentSession' = last'.sid
                       /\ nextDriver' = nextDriver + 1
                  ELSE /\ made = maxRetries
                       /\ \A i \in 1..made : outcomes[i] # "ok"
                       /\ last'.text = formatBrowserStartupError(outcomes[made])
                       /\ UNCHANGED <<drivers, currentSession, nextDriver>> ]_vars

\* with a session registered, a call failed three times, first with version
\* mismatches and last with another error, and answered with the text of the
\* last error
C35_Witness ==
    /\ last.tool = "start_browser"
    /\ last.sid = Null
    /\ last.outcomes = <<"mismatch", "mismatch", "other">>
    /\ last.text = formatBrowserStartupError("other")
    /\ Len(last.ops) = maxRetries
    /\ nextDriver = 2
    /\ currentSession # Null

(* ------------------------------------------------------------------------ *)
\* C36: the wrapper's handler sends the server the signal the wrapper
\* received; a signal received by the wrapper leads to the exit of the
\* server, every quit settling; and when the server exits quit has been
\* invoked on every driver of the drivers mapping.
C36_Claim ==
    /\ [][ \A h \in pending \ pending' :
              h.tool = "wrapper" => Killed(h.signal) \in pending' ]_vars
    /\ [][ ( running /\ ~running' )
            => \A d \in Range(drivers) : quits'[d] >= 1 ]_vars
    /\ ( (\E h \in pending : h.tool = "wrapper") ~> ~running )

(* ------------------------------------------------------------------------ *)
\* C37: get_error_stacktrace returns a response payload for every timestamp
\* argument, also for one that matches no tracked error of a non-empty
\* cache.
C37_Claim ==
    [][ ( Answered /\ last'.tool = "get_error_stacktrace" )
        => last'.text # Undefined ]_vars

(* ------------------------------------------------------------------------ *)
\* C38: a get_error_stacktrace that directly follows a get_console_logs
\* answers from the tracked errors that call gathered, and one that directly
\* follows the close of the session finds nothing cached.
C38_Claim ==
    [][ ( Answered /\ last'.tool = "get_error_stacktrace" )
        => /\ ( last.tool = "get_console_logs" /\ last.text \in {EntriesMsg, NoLogsMsg} )
              => ( last'.found # Null
                   => \E i \in 1..Len(last.trackedErrors) :
                         last'.found = <<last.trackedErrors[i]>> )
           /\ ( last.tool = "close_session" /\ last.text = ClosedMsg )
              => last'.text = NoCachedMsg ]_vars

(* ------------------------------------------------------------------------ *)
\* C39: the entries get_console_logs shows, which are the output of
\* deduplicateLogs, contain every tracked error and every Selenium entry
\* that does not itself lie within the window of a tracked error whose
\* message matches it.
C39_Claim ==
    [][ ( Answered /\ last'.tool = "get_console_logs" /\ last'.text = EntriesMsg )
        => LET shown == { last'.logs[i] : i \in 1..Len(last'.logs) }
               seleniumLogs == last'.seleniumLogs
               trackedErrors == last'.trackedErrors
           IN  /\ \A i \in 1..Len(trackedErrors) : fromTracked(trackedErrors[i]) \in shown
               /\ \A i \in 1..Len(seleniumLogs) :
                     ( \A j \in 1..Len(trackedErrors) :
                          ~matches(fromSelenium(seleniumLogs[i]), fromTracked(trackedErrors[j])) )
                     => fromSelenium(seleniumLogs[i]) \in shown ]_vars

====
